---- MODULE Spec2Model ----
(***************************************************************************)
(* Multi-agent writing workflow: role analysis, parallel agent execution,  *)
(* synthesis and error handling, with the output formatter.                *)
(*                                                                         *)
(* Conventions.  A JavaScript string is a sequence of tokens (the empty    *)
(* string is << >>); template literals concatenate token sequences.  An    *)
(* optional value is a sequence of length 0 (undefined) or 1.  A JS object *)
(* used as a map (agentOutputs) is a sequence of entries in insertion      *)
(* order, one entry per key.                                               *)
(***************************************************************************)
EXTENDS Integers, Sequences, FiniteSets, TLC

VARIABLES
  impl,        \* which executeWritingWorkflow runs: "sequential" or "langgraph"
  state,       \* the WritingGraphState threaded through the stages
  pc,          \* position of the workflow
  genResult,   \* what the generateObject call of analyzeRoles settled with
  agents,      \* one promise per identified role: agent.generate(...), kept once settled
  agentCache,  \* agentFactory.agentCache: role id -> role the agent is bound to
  outcome,     \* how executeWritingWorkflow ended: running, returned, thrown
  trace,       \* stages executed so far, in order
  synthesisCalls, \* the calls of synthesizeOutputs so far: strategy passed, prompts it sent to generateText
  generationCalls, \* the calls of generateObject and generateText issued so far, in order
  enableCaching, \* agentFactory.enableCaching
  constructed, \* number of UniversalWritingAgent instances constructed so far
  factoryLog,  \* calls made on the factory so far: createAgent with what it returned, clearCache
  now,         \* the wall clock, in milliseconds
  formatted,   \* what the calls of formatMultiAgentOutput returned, in order
  toolCall,    \* parameters of the multiAgentWriting invocation that started the run, if any
  toolResult,  \* what multiAgentWriting.execute returned, once it has
  validation   \* what validateRoleAnalysis returned for state.roleAnalysis, once called

factoryVars == <<enableCaching, constructed, factoryLog>>
callerVars == <<now, formatted, toolCall, toolResult, validation>>

vars == <<impl, state, pc, genResult, agents, agentCache, outcome, trace, synthesisCalls,
          generationCalls,
          factoryVars, callerVars>>

(***************************************************************************)
(* Bounds of the model and constants of the program.                       *)
(***************************************************************************)
MaxGenRoles == 3          \* longest role list generateObject returns (workflow)
MaxGenRolesA == 5         \* longest role list in the analyzer-only specification
MaxPriorityA == 2         \* largest priority in the analyzer-only specification
MaxFactoryCalls == 4      \* calls made on the factory in the factory-only specification
MaxOutputs == 2           \* most agent outputs handed to synthesizerNode when called by itself
MaxGenRolesR == 2         \* longest role list generateObject returns in the request runs
MaxTime == 2              \* last clock value
MaxFormatCalls == 2       \* calls of formatMultiAgentOutput on one terminal state
MaxValidatedRoles == 5    \* longest role list handed to validateRoleAnalysis

DEFAULT_MIN_ROLES == 2
DEFAULT_MAX_ROLES == 4
AgentTimeout == 30000      \* the timeout agentFactory gives every agent
MaxPreferredRoles == 4    \* preferredRoles: z.array(z.string()).max(4)

RoleIds == {"a", "b", "c"}
Texts == {<< >>, <<"text">>}          \* what generateText can return as text
GenErrorMessage == <<"provider error">> \* message of a rejected generation call

INTERLEAVING == "interleaving"
LAYERING == "layering"
HIGHLIGHTING == "highlighting"
BLENDING == "blending"
SynthesisStrategy == {INTERLEAVING, LAYERING, HIGHLIGHTING, BLENDING}

Min(a, b) == IF a < b THEN a ELSE b

\* F applied to the value of e (e is evaluated once, as a JS local is)
Let(e, F(_)) == CHOOSE r \in {F(x) : x \in {e}} : TRUE

(***************************************************************************)
(* Strings.                                                                *)
(***************************************************************************)
RECURSIVE Join(_, _)
\* Array.prototype.join over an array of strings
Join(arr, sep) ==
  IF Len(arr) = 0 THEN << >>
  ELSE IF Len(arr) = 1 THEN arr[1]
  ELSE arr[1] \o <<sep>> \o Join(Tail(arr), sep)

\* s contains t as a contiguous substring (String.prototype.includes)
Includes(s, t) ==
  \E i \in 0..(Len(s) - Len(t)) : SubSeq(s, i + 1, i + Len(t)) = t

\* p is a prefix of s
IsPrefix(p, s) == Len(p) <= Len(s) /\ SubSeq(s, 1, Len(p)) = p

(***************************************************************************)
(* createInitialState and the requests accepted by the request schema.     *)
(***************************************************************************)
\* preferredRoles lists the schema accepts: 0..4 names
PreferredRolesLists == {[i \in 1..n |-> "p"] : n \in 0..MaxPreferredRoles}

\* an optional value drawn from S
OptionalOf(S) == {<< >>} \cup {<<x>> : x \in S}

\* userConstraints: undefined, or an object whose fields are optional
UserConstraintsOf(preferred, strategies) ==
  {<< >>} \cup {<<[preferredRoles |-> p, synthesisStrategy |-> s]>> :
                  p \in preferred, s \in strategies}

\* the constraints of the workflow runs: any preferredRoles, no strategy chosen
UserConstraintsSet == UserConstraintsOf(OptionalOf(PreferredRolesLists), {<< >>})

\* the constraints of the request runs: any strategy, no preferredRoles
UserConstraintsR == UserConstraintsOf({<< >>}, OptionalOf(SynthesisStrategy))

createInitialState(userRequest, constraints) ==
  [userRequest |-> userRequest,
   userConstraints |-> constraints,
   roleAnalysis |-> << >>,
   agentOutputs |-> << >>,
   synthesizedContent |-> << >>,
   finalReasoning |-> << >>,
   graphExecutionId |-> "id",
   startTime |-> now,
   currentNode |-> << >>,
   errors |-> << >>]

(***************************************************************************)
(* analyzeRoles.                                                           *)
(***************************************************************************)
Roles(ids, maxPriority) == [id : ids, priority : 1..maxPriority]

\* role lists of 1..maxLen roles
GenObjectsOf(ids, maxLen, maxPriority) ==
  UNION {[1..n -> Roles(ids, maxPriority)] : n \in 1..maxLen}

\* objects generateObject resolves with in the workflow: any ids, duplicates
\* included, the priorities ranking the roles 1, 2, ... as the prompt asks
GenObjects ==
  {obj \in GenObjectsOf(RoleIds, MaxGenRoles, MaxGenRoles) :
     \A i \in 1..Len(obj) : obj[i].priority = i}

\* objects generateObject resolves with in the analyzer-only specification: any
\* priorities in any order, two ids to tell roles of equal priority apart
GenObjectsA == GenObjectsOf({"a", "b"}, MaxGenRolesA, MaxPriorityA)

RECURSIVE InsertByPriority_Unstable(_, _)
\* InsertByPriority with a comparison that moves a role before its equals
InsertByPriority_Unstable(s, r) ==
  IF Len(s) = 0 THEN <<r>>
  ELSE IF s[Len(s)].priority - r.priority < 0 THEN Append(s, r)
  ELSE Append(InsertByPriority_Unstable(SubSeq(s, 1, Len(s) - 1), r), s[Len(s)])

RECURSIVE InsertByPriority(_, _)
\* insert r into the sorted list s after every element that does not compare greater
InsertByPriority(s, r) ==
  IF Len(s) = 0 THEN <<r>>
  ELSE IF s[Len(s)].priority - r.priority <= 0 THEN Append(s, r)
  ELSE Append(InsertByPriority(SubSeq(s, 1, Len(s) - 1), r), s[Len(s)])

RECURSIVE SortByPriority(_)
\* identifiedRoles.sort((a, b) => a.priority - b.priority): a stable sort
SortByPriority(s) ==
  IF Len(s) = 0 THEN << >>
  ELSE Let(SortByPriority(SubSeq(s, 1, Len(s) - 1)),
           LAMBDA sorted : InsertByPriority(sorted, s[Len(s)]))

\* .slice(0, n)
Slice0(s, n) == SubSeq(s, 1, Min(n, Len(s)))

FallbackAnalysis ==
  [identifiedRoles |-> <<[id |-> "content_writer", priority |-> 1],
                         [id |-> "editor", priority |-> 2]>>,
   reasoning |-> <<"Using fallback roles due to analysis error">>,
   confidence |-> 50]

MaxRolesFor(constraints) ==
  IF constraints # << >> /\ constraints[1].preferredRoles # << >>
  THEN Min(Len(constraints[1].preferredRoles[1]), DEFAULT_MAX_ROLES)
  ELSE DEFAULT_MAX_ROLES

\* the body of analyzeRoles after the generateObject call has settled with res
analyzeRoles(res, constraints) ==
  LET minRoles == DEFAULT_MIN_ROLES
      maxRoles == MaxRolesFor(constraints)
  IN IF res.kind # "object" THEN FallbackAnalysis
     ELSE IF Len(res.object) < minRoles THEN FallbackAnalysis
     ELSE IF Len(res.object) > maxRoles
       THEN [identifiedRoles |-> Slice0(SortByPriority(res.object), maxRoles),
             reasoning |-> <<"reasoning">>, confidence |-> 85]
     ELSE [identifiedRoles |-> res.object,
           reasoning |-> <<"reasoning">>, confidence |-> 85]

(***************************************************************************)
(* JS objects used as maps: entries [key, value] in insertion order.       *)
(***************************************************************************)
HasKey(m, k) == \E i \in 1..Len(m) : m[i].key = k

Keys(m) == {m[i].key : i \in 1..Len(m)}

\* m[k] = v: an existing key keeps its position, a new key is appended
ObjectSet(m, k, v) ==
  IF HasKey(m, k)
  THEN [i \in 1..Len(m) |-> IF m[i].key = k THEN [key |-> k, value |-> v] ELSE m[i]]
  ELSE Append(m, [key |-> k, value |-> v])

RECURSIVE ObjectSpread(_, _)
\* { ...a, ...b }
ObjectSpread(a, b) ==
  IF Len(b) = 0 THEN a
  ELSE Let(ObjectSet(a, b[1].key, b[1].value), LAMBDA ab : ObjectSpread(ab, Tail(b)))

\* Object.values(m)
ObjectValues(m) == [i \in 1..Len(m) |-> m[i].value]

(***************************************************************************)
(* Partial updates returned by the nodes, and how they are merged.         *)
(***************************************************************************)
NoUpdate ==
  [roleAnalysis |-> << >>, agentOutputs |-> << >>, errors |-> << >>,
   synthesizedContent |-> << >>, finalReasoning |-> << >>, currentNode |-> << >>]

\* b ?? a on optional values
Coalesce(a, b) == IF b # << >> THEN b ELSE a

\* MergeSpread that keeps only what the update carries: currentState = result
MergeSpread_DropsAbsent(st, upd) ==
  [st EXCEPT
     !.roleAnalysis = upd.roleAnalysis,
     !.agentOutputs = IF upd.agentOutputs # << >> THEN upd.agentOutputs[1] ELSE << >>,
     !.errors = IF upd.errors # << >> THEN upd.errors[1] ELSE << >>,
     !.synthesizedContent = upd.synthesizedContent,
     !.finalReasoning = upd.finalReasoning,
     !.currentNode = upd.currentNode]

\* currentState = { ...currentState, ...result }: every field present overwrites
MergeSpread(st, upd) ==
  [st EXCEPT
     !.roleAnalysis = Coalesce(@, upd.roleAnalysis),
     !.agentOutputs = IF upd.agentOutputs # << >> THEN upd.agentOutputs[1] ELSE @,
     !.errors = IF upd.errors # << >> THEN upd.errors[1] ELSE @,
     !.synthesizedContent = Coalesce(@, upd.synthesizedContent),
     !.finalReasoning = Coalesce(@, upd.finalReasoning),
     !.currentNode = Coalesce(@, upd.currentNode)]

\* WritingStateAnnotation: the reducers of the LangGraph channels
MergeReducers(st, upd) ==
  [st EXCEPT
     !.roleAnalysis = Coalesce(@, upd.roleAnalysis),
     !.agentOutputs = IF upd.agentOutputs # << >> THEN ObjectSpread(@, upd.agentOutputs[1]) ELSE @,
     !.errors = IF upd.errors # << >> THEN @ \o upd.errors[1] ELSE @,
     !.synthesizedContent = Coalesce(@, upd.synthesizedContent),
     !.finalReasoning = Coalesce(@, upd.finalReasoning),
     !.currentNode = Coalesce(@, upd.currentNode)]

Merge(st, update) ==
  Let(update, LAMBDA upd :
    IF impl = "sequential" THEN MergeSpread(st, upd) ELSE MergeReducers(st, upd))

(***************************************************************************)
(* The nodes.                                                              *)
(***************************************************************************)
\* roleAnalyzerNode over an analyzeRoles that surfaces a failed call instead of
\* falling back
roleAnalyzerNode_Surfacing(st, res) ==
  IF res.kind # "object"
  THEN [NoUpdate EXCEPT !.errors = << <<(<<"Role analysis failed">>)>> >>,
                        !.currentNode = <<"role_analyzer">>]
  ELSE [NoUpdate EXCEPT !.roleAnalysis = <<analyzeRoles(res, st.userConstraints)>>,
                        !.currentNode = <<"role_analyzer">>]

\* roleAnalyzerNode over an analyzeRoles that lets its too-few-roles error through
roleAnalyzerNode_HardMinimum(st, res) ==
  IF res.kind = "object" /\ Len(res.object) < DEFAULT_MIN_ROLES
  THEN [NoUpdate EXCEPT
          !.errors = << <<(<<"Role analysis must identify at least ",
                             ToString(DEFAULT_MIN_ROLES), " roles, got ",
                             ToString(Len(res.object))>>)>> >>,
          !.currentNode = <<"role_analyzer">>]
  ELSE [NoUpdate EXCEPT !.roleAnalysis = <<analyzeRoles(res, st.userConstraints)>>,
                        !.currentNode = <<"role_analyzer">>]

\* roleAnalyzerNode once generateObject has settled with res.  analyzeRoles
\* catches every failure itself, so the catch block of the node has no case.
roleAnalyzerNode(st, res) ==
  [NoUpdate EXCEPT !.roleAnalysis = <<analyzeRoles(res, st.userConstraints)>>,
                   !.currentNode = <<"role_analyzer">>]

\* errorHandlerNode with a summary that leaves the error messages out
errorHandlerNode_NoMessages(st) ==
  [NoUpdate EXCEPT
     !.synthesizedContent = <<(<<"An error occurred during content generation: ">>)>>,
     !.finalReasoning = <<(<<"Error occurred, returning error message">>)>>,
     !.currentNode = <<"error_handler">>]

\* errorHandlerNode that also resets the error list
errorHandlerNode_ClearsErrors(st) ==
  [NoUpdate EXCEPT
     !.synthesizedContent =
        <<(<<"An error occurred during content generation: ">> \o Join(st.errors, "; "))>>,
     !.finalReasoning = <<(<<"Error occurred, returning error message">>)>>,
     !.errors = <<(<< >>)>>,
     !.currentNode = <<"error_handler">>]

errorHandlerNode(st) ==
  [NoUpdate EXCEPT
     !.synthesizedContent =
        <<(<<"An error occurred during content generation: ">> \o Join(st.errors, "; "))>>,
     !.finalReasoning = <<(<<"Error occurred, returning error message">>)>>,
     !.currentNode = <<"error_handler">>]

\* shouldContinueAfterRoleAnalysis with the test inverted
shouldContinueAfterRoleAnalysis_Inverted(st) ==
  IF Len(st.errors) > 0 THEN "agent_executor" ELSE "error_handler"

shouldContinueAfterRoleAnalysis(st) ==
  IF Len(st.errors) > 0 THEN "error_handler" ELSE "agent_executor"

\* shouldContinueAfterAgentExecution that never routes to the error handler
shouldContinueAfterAgentExecution_Always(st) == "synthesizer"

shouldContinueAfterAgentExecution(st) ==
  IF Len(st.agentOutputs) > 0 THEN "synthesizer" ELSE "error_handler"

(***************************************************************************)
(* Agent factory and universal agent.                                      *)
(***************************************************************************)
AllRoleIds == RoleIds \cup {"content_writer", "editor"}

\* the DynamicAgentFactory as one value
Factory ==
  [enableCaching |-> enableCaching, agentCache |-> agentCache,
   constructed |-> constructed, log |-> factoryLog]

\* new UniversalWritingAgent(role, timeout): the n-th instance constructed
UniversalWritingAgent(n, role) == [instance |-> n, roleDefinition |-> role]

\* what a call on the factory leaves in the log
LogEntry(op, role, agent) == [op |-> op, role |-> role, agent |-> agent]

\* createAgent with a cache hit only when the cached agent is bound to an equal role
createAgent_KeyedByRole(fac, role) ==
  IF /\ fac.enableCaching
     /\ fac.agentCache[role.id] # << >>
     /\ fac.agentCache[role.id][1].roleDefinition = role
  THEN [fac EXCEPT !.log = Append(@, LogEntry("createAgent", <<role>>, fac.agentCache[role.id]))]
  ELSE LET agent == UniversalWritingAgent(fac.constructed + 1, role)
       IN [fac EXCEPT
             !.constructed = @ + 1,
             !.agentCache = IF fac.enableCaching THEN [@ EXCEPT ![role.id] = <<agent>>] ELSE @,
             !.log = Append(@, LogEntry("createAgent", <<role>>, <<agent>>))]

\* the factory after createAgent(role); the agent returned is the last log entry's
createAgent(fac, role) ==
  IF fac.enableCaching /\ fac.agentCache[role.id] # << >>
  THEN [fac EXCEPT !.log = Append(@, LogEntry("createAgent", <<role>>, fac.agentCache[role.id]))]
  ELSE LET agent == UniversalWritingAgent(fac.constructed + 1, role)
       IN [fac EXCEPT
             !.constructed = @ + 1,
             !.agentCache = IF fac.enableCaching THEN [@ EXCEPT ![role.id] = <<agent>>] ELSE @,
             !.log = Append(@, LogEntry("createAgent", <<role>>, <<agent>>))]

\* the factory after clearCache()
clearCache(fac) ==
  [fac EXCEPT !.agentCache = [id \in DOMAIN @ |-> << >>],
              !.log = Append(@, LogEntry("clearCache", << >>, << >>))]

RECURSIVE CacheAfter(_, _)
\* the factory after createAgent has been called for each role of roles in order
CacheAfter(fac, roles) ==
  IF Len(roles) = 0 THEN fac
  ELSE Let(createAgent(fac, roles[1]), LAMBDA f : CacheAfter(f, Tail(roles)))

\* the promise of agent.generate for one role, as Promise.allSettled sees it,
\* with the state of the generateText call and of the timer racing against it
PendingPromise(role) ==
  [status |-> "pending", agentRole |-> role, roleId |-> role.id,
   value |-> << >>, reason |-> << >>,
   call |-> "in_flight", lateText |-> << >>, settledAt |-> 0, timer |-> "armed"]

\* the Error of timeoutPromise
TimeoutMessage(role) ==
  <<"Agent ", role.id, " timed out after ", ToString(AgentTimeout), "ms">>

\* the AgentOutput assembled by generate
BuildAgentOutput(role, text) ==
  [roleId |-> role.id, content |-> text, confidence |-> 80, priority |-> role.priority]

\* AgentOutputSchema.parse: content is any string, confidence within [0,1]
AgentOutputValid(o) == o.confidence >= 0 /\ o.confidence <= 100

(***************************************************************************)
(* dynamicAgentExecutorNode after Promise.allSettled.                      *)
(***************************************************************************)
RECURSIVE CollectOutputs_OneKey(_)
\* CollectOutputs storing every output under one fixed key
CollectOutputs_OneKey(results) ==
  IF Len(results) = 0 THEN << >>
  ELSE LET r == results[Len(results)]
       IN Let(CollectOutputs_OneKey(SubSeq(results, 1, Len(results) - 1)),
              LAMBDA before : IF r.status = "fulfilled"
                              THEN ObjectSet(before, "output", r.value[1])
                              ELSE before)

RECURSIVE CollectOutputs_ArrivalOrder(_)
\* CollectOutputs writing the outputs in the order in which the promises settled
CollectOutputs_ArrivalOrder(results) ==
  IF Len(results) = 0 THEN << >>
  ELSE LET last == CHOOSE i \in 1..Len(results) :
                     \A j \in 1..Len(results) :
                       \/ results[j].settledAt < results[i].settledAt
                       \/ (results[j].settledAt = results[i].settledAt /\ j <= i)
           r == results[last]
           rest == [k \in 1..(Len(results) - 1) |->
                      IF k < last THEN results[k] ELSE results[k + 1]]
       IN Let(CollectOutputs_ArrivalOrder(rest),
              LAMBDA before : IF r.status = "fulfilled"
                              THEN ObjectSet(before, r.roleId, r.value[1])
                              ELSE before)

RECURSIVE CollectOutputs(_)
CollectOutputs(results) ==
  IF Len(results) = 0 THEN << >>
  ELSE LET r == results[Len(results)]
       IN Let(CollectOutputs(SubSeq(results, 1, Len(results) - 1)),
              LAMBDA before : IF r.status = "fulfilled"
                              THEN ObjectSet(before, r.roleId, r.value[1])
                              ELSE before)

RECURSIVE CollectErrors(_)
CollectErrors(results) ==
  IF Len(results) = 0 THEN << >>
  ELSE LET r == results[1]
       IN IF r.status = "fulfilled" THEN CollectErrors(Tail(results))
          ELSE <<(<<"Agent failed: ", "Error: ">> \o r.reason)>> \o CollectErrors(Tail(results))

dynamicAgentExecutorNode(st, results) ==
  IF st.roleAnalysis = << >>
  THEN [NoUpdate EXCEPT !.errors = << <<(<<"No role analysis found">>)>> >>,
                        !.currentNode = <<"dynamic_agent_executor">>]
  ELSE Let(CollectErrors(results), LAMBDA errors :
         [NoUpdate EXCEPT
            !.agentOutputs = <<CollectOutputs(results)>>,
            !.currentNode = <<"dynamic_agent_executor">>,
            !.errors = IF Len(errors) > 0 THEN <<errors>> ELSE << >>])

(***************************************************************************)
(* synthesizerNode and synthesizeOutputs.                                  *)
(***************************************************************************)
\* state.userConstraints?.synthesisStrategy || fallback
StrategyOr(st, fallback) ==
  IF st.userConstraints # << >> /\ st.userConstraints[1].synthesisStrategy # << >>
  THEN st.userConstraints[1].synthesisStrategy[1]
  ELSE fallback

getStrategyInstructions(strategy) ==
  IF strategy = INTERLEAVING THEN <<"Interleave insights from different agents">>
  ELSE IF strategy = LAYERING THEN <<"Stack content sequentially based on agent priorities">>
  ELSE IF strategy = HIGHLIGHTING THEN <<"Present each agent's complete output as a distinct section">>
  ELSE <<"Create entirely new, cohesive content inspired by all agent outputs">>

RECURSIVE OutputsSection(_)
\* the part of the synthesis prompt that quotes each agent's output
OutputsSection(agentOutputs) ==
  IF Len(agentOutputs) = 0 THEN << >>
  ELSE <<"=== ", agentOutputs[1].roleId, " ===">> \o agentOutputs[1].content
       \o OutputsSection(Tail(agentOutputs))

buildSynthesisPrompt(agentOutputs, userRequest, strategy) ==
  <<"Original request: ">> \o userRequest
  \o <<"Synthesis strategy: ", strategy>>
  \o <<"You have ", ToString(Len(agentOutputs)), " agent outputs to combine:">>
  \o OutputsSection(agentOutputs)
  \o getStrategyInstructions(strategy)

\* how the generateText call of synthesizeOutputs settles
SynthesisSettlements ==
  {[kind |-> "text", text |-> t, message |-> << >>] : t \in Texts}
  \cup {[kind |-> "error", text |-> << >>, message |-> GenErrorMessage]}

\* what synthesizeOutputs did: returned or threw, and the prompts it sent
SynthesisReturn(content, reasoning, prompts) ==
  [kind |-> "returned", content |-> content, reasoning |-> reasoning,
   message |-> << >>, prompts |-> prompts]

SynthesisThrow(message, prompts) ==
  [kind |-> "threw", content |-> << >>, reasoning |-> << >>,
   message |-> message, prompts |-> prompts]

\* synthesizeOutputs that answers zero outputs with an empty success
synthesizeOutputs_EmptySuccess(agentOutputs, userRequest, strategy, res) ==
  IF Len(agentOutputs) = 0 THEN SynthesisReturn(<< >>, <<"Nothing to synthesize">>, << >>)
  ELSE IF Len(agentOutputs) = 1
    THEN SynthesisReturn(agentOutputs[1].content,
                         <<"Single agent output from ", agentOutputs[1].roleId>>,
                         << >>)
  ELSE LET prompt == buildSynthesisPrompt(agentOutputs, userRequest, strategy)
       IN IF res.kind = "text"
          THEN SynthesisReturn(res.text,
                               <<"Synthesized content using ", strategy, " strategy">>,
                               <<prompt>>)
          ELSE SynthesisThrow(res.message, <<prompt>>)

\* synthesizeOutputs without the single-output return
synthesizeOutputs_NoPassThrough(agentOutputs, userRequest, strategy, res) ==
  IF Len(agentOutputs) = 0 THEN SynthesisThrow(<<"No agent outputs to synthesize">>, << >>)
  ELSE LET prompt == buildSynthesisPrompt(agentOutputs, userRequest, strategy)
       IN IF res.kind = "text"
          THEN SynthesisReturn(res.text,
                               <<"Synthesized content using ", strategy, " strategy">>,
                               <<prompt>>)
          ELSE SynthesisThrow(res.message, <<prompt>>)

\* synthesizeOutputs, its generateText call (if it makes one) settling with res;
\* the model returns no reasoning parts
synthesizeOutputs(agentOutputs, userRequest, strategy, res) ==
  IF Len(agentOutputs) = 0 THEN SynthesisThrow(<<"No agent outputs to synthesize">>, << >>)
  ELSE IF Len(agentOutputs) = 1
    THEN SynthesisReturn(agentOutputs[1].content,
                         <<"Single agent output from ", agentOutputs[1].roleId>>,
                         << >>)
  ELSE LET prompt == buildSynthesisPrompt(agentOutputs, userRequest, strategy)
       IN IF res.kind = "text"
          THEN SynthesisReturn(res.text,
                               <<"Synthesized content using ", strategy, " strategy">>,
                               <<prompt>>)
          ELSE SynthesisThrow(res.message, <<prompt>>)

\* synthesizerNode that passes a fixed strategy to synthesizeOutputs
synthesizerNode_FixedStrategy(st, res) ==
  LET agentOutputsArray == ObjectValues(st.agentOutputs)
  IN IF Len(agentOutputsArray) = 0
     THEN [update |-> [NoUpdate EXCEPT
                         !.errors = << <<(<<"No agent outputs to synthesize">>)>> >>,
                         !.currentNode = <<"synthesizer">>],
           calls |-> << >>]
     ELSE Let(synthesizeOutputs(agentOutputsArray, st.userRequest, BLENDING, res),
            LAMBDA r :
              [update |-> IF r.kind = "returned"
                          THEN [NoUpdate EXCEPT !.synthesizedContent = <<r.content>>,
                                                !.finalReasoning = <<r.reasoning>>,
                                                !.currentNode = <<"synthesizer">>]
                          ELSE [NoUpdate EXCEPT !.errors = << <<r.message>> >>,
                                                !.currentNode = <<"synthesizer">>],
               calls |-> <<[strategy |-> BLENDING, prompts |-> r.prompts]>>])

\* synthesizerNode: its partial update, and the calls of synthesizeOutputs it made
synthesizerNode(st, res) ==
  LET agentOutputsArray == ObjectValues(st.agentOutputs)
      strategy == StrategyOr(st, BLENDING)
  IN IF Len(agentOutputsArray) = 0
     THEN [update |-> [NoUpdate EXCEPT
                         !.errors = << <<(<<"No agent outputs to synthesize">>)>> >>,
                         !.currentNode = <<"synthesizer">>],
           calls |-> << >>]
     ELSE Let(synthesizeOutputs(agentOutputsArray, st.userRequest, strategy, res),
            LAMBDA r :
              [update |-> IF r.kind = "returned"
                          THEN [NoUpdate EXCEPT !.synthesizedContent = <<r.content>>,
                                                !.finalReasoning = <<r.reasoning>>,
                                                !.currentNode = <<"synthesizer">>]
                          ELSE [NoUpdate EXCEPT !.errors = << <<r.message>> >>,
                                                !.currentNode = <<"synthesizer">>],
               calls |-> <<[strategy |-> strategy, prompts |-> r.prompts]>>])

(***************************************************************************)
(* formatMultiAgentOutput.                                                 *)
(***************************************************************************)
\* new Date().toISOString() at clock value t: the instant, to the millisecond
toISOString(t) == <<"1970-01-01T00:00:00.", ToString(t), "Z">>

\* formatMultiAgentOutput that reports no warnings
formatMultiAgentOutput_NoWarnings(st) ==
  [id |-> st.graphExecutionId,
   timestamp |-> toISOString(now),
   request |-> st.userRequest,
   identifiedRoles |-> IF st.roleAnalysis # << >>
                       THEN [i \in 1..Len(st.roleAnalysis[1].identifiedRoles) |->
                               [id |-> st.roleAnalysis[1].identifiedRoles[i].id]]
                       ELSE << >>,
   roleAnalysis |->
     [reasoning |-> IF st.roleAnalysis # << >> /\ st.roleAnalysis[1].reasoning # << >>
                    THEN st.roleAnalysis[1].reasoning ELSE <<"No analysis available">>,
      confidence |-> IF st.roleAnalysis # << >> THEN st.roleAnalysis[1].confidence ELSE 0],
   agents |-> [i \in 1..Len(st.agentOutputs) |->
                 [key |-> st.agentOutputs[i].key,
                  value |-> [contribution |-> st.agentOutputs[i].value.content,
                             confidence |-> st.agentOutputs[i].value.confidence]]],
   finalContent |-> IF st.synthesizedContent # << >> /\ st.synthesizedContent[1] # << >>
                    THEN st.synthesizedContent[1] ELSE << >>,
   metadata |->
     [duration |-> now - st.startTime,
      graphExecutionId |-> st.graphExecutionId,
      synthesisStrategy |-> StrategyOr(st, "blending"),
      warnings |-> << >>]]

\* formatMultiAgentOutput called at the clock value now
\* formatMultiAgentOutput that defaults a missing confidence to 1
formatMultiAgentOutput_OtherDefaults(st) ==
  [id |-> st.graphExecutionId,
   timestamp |-> toISOString(now),
   request |-> st.userRequest,
   identifiedRoles |-> IF st.roleAnalysis # << >>
                       THEN [i \in 1..Len(st.roleAnalysis[1].identifiedRoles) |->
                               [id |-> st.roleAnalysis[1].identifiedRoles[i].id]]
                       ELSE << >>,
   roleAnalysis |->
     [reasoning |-> IF st.roleAnalysis # << >> /\ st.roleAnalysis[1].reasoning # << >>
                    THEN st.roleAnalysis[1].reasoning ELSE <<"No analysis available">>,
      confidence |-> IF st.roleAnalysis # << >> THEN st.roleAnalysis[1].confidence ELSE 100],
   agents |-> [i \in 1..Len(st.agentOutputs) |->
                 [key |-> st.agentOutputs[i].key,
                  value |-> [contribution |-> st.agentOutputs[i].value.content,
                             confidence |-> st.agentOutputs[i].value.confidence]]],
   finalContent |-> IF st.synthesizedContent # << >> /\ st.synthesizedContent[1] # << >>
                    THEN st.synthesizedContent[1] ELSE << >>,
   metadata |->
     [duration |-> now - st.startTime,
      graphExecutionId |-> st.graphExecutionId,
      synthesisStrategy |-> StrategyOr(st, "blending"),
      warnings |-> IF Len(st.errors) > 0 THEN st.errors ELSE << >>]]

formatMultiAgentOutput(st) ==
  [id |-> st.graphExecutionId,
   timestamp |-> toISOString(now),
   request |-> st.userRequest,
   identifiedRoles |-> IF st.roleAnalysis # << >>
                       THEN [i \in 1..Len(st.roleAnalysis[1].identifiedRoles) |->
                               [id |-> st.roleAnalysis[1].identifiedRoles[i].id]]
                       ELSE << >>,
   roleAnalysis |->
     [reasoning |-> IF st.roleAnalysis # << >> /\ st.roleAnalysis[1].reasoning # << >>
                    THEN st.roleAnalysis[1].reasoning ELSE <<"No analysis available">>,
      confidence |-> IF st.roleAnalysis # << >> THEN st.roleAnalysis[1].confidence ELSE 0],
   agents |-> [i \in 1..Len(st.agentOutputs) |->
                 [key |-> st.agentOutputs[i].key,
                  value |-> [contribution |-> st.agentOutputs[i].value.content,
                             confidence |-> st.agentOutputs[i].value.confidence]]],
   finalContent |-> IF st.synthesizedContent # << >> /\ st.synthesizedContent[1] # << >>
                    THEN st.synthesizedContent[1] ELSE << >>,
   metadata |->
     [duration |-> now - st.startTime,
      graphExecutionId |-> st.graphExecutionId,
      synthesisStrategy |-> StrategyOr(st, "blending"),
      warnings |-> IF Len(st.errors) > 0 THEN st.errors ELSE << >>]]

(***************************************************************************)
(* The workflow: executeWritingWorkflow, sequential and LangGraph.  The    *)
(* two differ in how a node's partial update is merged (Merge).  Every     *)
(* node catches what its generation calls throw, so no step reaches the    *)
(* try/catch around the workflow; outcome records that no exception        *)
(* reaches the caller.                                                     *)
(***************************************************************************)
\* a call of the generation capability: generateObject in role analysis,
\* generateText for the agent of the role at position role, or in synthesis
GenerationCall(stage, role) == [stage |-> stage, role |-> role]

\* a caller creates the initial state with one of the constraints and is about
\* to run the workflow; the factory is new, its caching one of cachings
InitRun(constraints, cachings) ==
  /\ now = 0
  /\ impl \in {"sequential", "langgraph"}
  /\ \E c \in constraints : state = createInitialState(<<"request">>, c)
  /\ pc = "start"
  /\ genResult = << >>
  /\ agents = << >>
  /\ agentCache = [id \in AllRoleIds |-> << >>]
  /\ outcome = "running"
  /\ trace = << >>
  /\ synthesisCalls = << >>
  /\ generationCalls = << >>
  /\ enableCaching \in cachings
  /\ constructed = 0
  /\ factoryLog = << >>
  /\ formatted = << >>
  /\ toolResult = << >>
  /\ validation = << >>

\* agentFactory = new DynamicAgentFactory(): caching enabled
Init ==
  /\ InitRun(UserConstraintsSet, {TRUE})
  /\ toolCall = << >>

\* the workflow enters roleAnalyzerNode; analyzeRoles issues generateObject
StartWorkflow ==
  /\ pc = "start"
  /\ pc' = "role_analysis"
  /\ trace' = Append(trace, "role_analysis")
  /\ generationCalls' = Append(generationCalls, GenerationCall("role_analysis", 0))
  /\ UNCHANGED <<impl, state, genResult, agents, agentCache, outcome, synthesisCalls,
                 factoryVars, callerVars>>

\* generateObject resolves with an object
GenerateObjectResolves(objects) ==
  /\ pc = "role_analysis" /\ genResult = << >>
  /\ \E obj \in objects : genResult' = <<[kind |-> "object", object |-> obj]>>
  /\ UNCHANGED <<impl, state, pc, agents, agentCache, outcome, trace, synthesisCalls,
                 generationCalls, factoryVars, callerVars>>

\* generateObject rejects, or resolves without an object
GenerateObjectFails ==
  /\ pc = "role_analysis" /\ genResult = << >>
  /\ \E k \in {"error", "no_object"} : genResult' = <<[kind |-> k, object |-> << >>]>>
  /\ UNCHANGED <<impl, state, pc, agents, agentCache, outcome, trace, synthesisCalls,
                 generationCalls, factoryVars, callerVars>>

\* the stage that follows a routing decision starts: the executor creates its
\* agents and calls generate on each; the other stages have nothing to set up
EnterStage(next, st) ==
  IF next = "agent_executor"
  THEN /\ pc' = "agent_execution"
       /\ trace' = Append(trace, "agent_execution")
       /\ \E roles \in {IF st.roleAnalysis = << >> THEN << >>
                         ELSE st.roleAnalysis[1].identifiedRoles} :
          \E fac \in {CacheAfter(Factory, roles)} :
            /\ agentCache' = fac.agentCache
            /\ constructed' = fac.constructed
            /\ factoryLog' = fac.log
            /\ agents' = [i \in 1..Len(roles) |->
                 PendingPromise(fac.log[Len(factoryLog) + i].agent[1].roleDefinition)]
            /\ generationCalls' = generationCalls \o
                 [i \in 1..Len(roles) |-> GenerationCall("agent_execution", i)]
  ELSE /\ pc' = IF next = "synthesizer" THEN "synthesis" ELSE "error_handling"
       /\ trace' = Append(trace, IF next = "synthesizer" THEN "synthesis" ELSE "error_handling")
       /\ UNCHANGED <<agents, agentCache, constructed, factoryLog, generationCalls>>

\* analyzeRoles and roleAnalyzerNode finish; the workflow merges and routes
RoleAnalysisCompletes ==
  /\ pc = "role_analysis" /\ genResult # << >>
  /\ \E st \in {Merge(state, roleAnalyzerNode(state, genResult[1]))} :
        /\ state' = st
        /\ EnterStage(shouldContinueAfterRoleAnalysis(st), st)
  /\ UNCHANGED <<impl, genResult, outcome, synthesisCalls, enableCaching, callerVars>>

\* the generateText call of agent i resolves first: generate builds and validates
AgentGenerationResolves(i) ==
  /\ pc = "agent_execution" /\ i \in 1..Len(agents) /\ agents[i].status = "pending"
  /\ \E text \in Texts :
       LET output == BuildAgentOutput(agents[i].agentRole, text)
       IN agents' = [agents EXCEPT ![i] =
            IF AgentOutputValid(output)
            THEN [@ EXCEPT !.status = "fulfilled", !.value = <<output>>,
                           !.call = "settled", !.settledAt = now]
            ELSE [@ EXCEPT !.status = "rejected", !.reason = <<"invalid output">>,
                           !.call = "settled", !.settledAt = now]]
  /\ UNCHANGED <<impl, state, pc, genResult, agentCache, outcome, trace, synthesisCalls,
                 generationCalls, factoryVars, callerVars>>

\* AgentGenerationRejects that re-issues a rejected generateText call once
AgentGenerationRejects_Retries(i) ==
  /\ pc = "agent_execution" /\ i \in 1..Len(agents) /\ agents[i].status = "pending"
  /\ \E attempts \in {Cardinality({k \in 1..Len(generationCalls) :
                          generationCalls[k] = GenerationCall("agent_execution", i)})} :
       IF attempts < 2
       THEN /\ generationCalls' = Append(generationCalls, GenerationCall("agent_execution", i))
            /\ UNCHANGED agents
       ELSE /\ agents' = [agents EXCEPT ![i] =
                 [@ EXCEPT !.status = "rejected", !.reason = GenErrorMessage,
                           !.call = "settled", !.settledAt = now]]
            /\ UNCHANGED generationCalls
  /\ UNCHANGED <<impl, state, pc, genResult, agentCache, outcome, trace, synthesisCalls,
                 factoryVars, callerVars>>

\* the generateText call of agent i rejects first
AgentGenerationRejects(i) ==
  /\ pc = "agent_execution" /\ i \in 1..Len(agents) /\ agents[i].status = "pending"
  /\ agents' = [agents EXCEPT ![i] =
       [@ EXCEPT !.status = "rejected", !.reason = GenErrorMessage,
                 !.call = "settled", !.settledAt = now]]
  /\ UNCHANGED <<impl, state, pc, genResult, agentCache, outcome, trace, synthesisCalls,
                 generationCalls, factoryVars, callerVars>>

\* AgentTimerFires for an agent whose generate sets no timer
AgentTimerFires_NoTimer(i) ==
  /\ pc = "agent_execution" /\ i \in 1..Len(agents) /\ agents[i].status = "pending"
  /\ FALSE
  /\ UNCHANGED vars

\* the timer of agent i fires first: the race rejects, the generateText call
\* stays in flight
AgentTimerFires(i) ==
  /\ pc = "agent_execution" /\ i \in 1..Len(agents) /\ agents[i].status = "pending"
  /\ agents' = [agents EXCEPT ![i] =
       [@ EXCEPT !.status = "rejected", !.reason = TimeoutMessage(agents[i].agentRole),
                 !.settledAt = now, !.timer = "fired"]]
  /\ UNCHANGED <<impl, state, pc, genResult, agentCache, outcome, trace, synthesisCalls,
                 generationCalls, factoryVars, callerVars>>

\* what a generateText call that lost the race can still deliver
LateTexts == {<<"late text">>}

\* AgentGenerationArrivesLate with a race that the late call can still win
AgentGenerationArrivesLate_Accepted(i) ==
  /\ i \in 1..Len(agents) /\ agents[i].status = "rejected" /\ agents[i].call = "in_flight"
  /\ \E text \in LateTexts :
       agents' = [agents EXCEPT ![i] =
         [@ EXCEPT !.status = "fulfilled", !.reason = << >>,
                   !.value = <<BuildAgentOutput(agents[i].agentRole, text)>>,
                   !.call = "settled", !.lateText = <<text>>]]
  /\ UNCHANGED <<impl, state, pc, genResult, agentCache, outcome, trace, synthesisCalls,
                 generationCalls, factoryVars, callerVars>>

\* the generateText call of agent i settles after the timer won the race: it
\* resolves with a text; Promise.race has settled, generate has thrown,
\* nothing reads the late settlement
AgentGenerationArrivesLate(i) ==
  /\ i \in 1..Len(agents) /\ agents[i].status = "rejected" /\ agents[i].call = "in_flight"
  /\ \E text \in LateTexts :
       agents' = [agents EXCEPT ![i] = [@ EXCEPT !.call = "settled", !.lateText = <<text>>]]
  /\ UNCHANGED <<impl, state, pc, genResult, agentCache, outcome, trace, synthesisCalls,
                 generationCalls, factoryVars, callerVars>>

\* AgentTimerFiresLate with a promise that the late rejection settles again
AgentTimerFiresLate_Overrides(i) ==
  /\ i \in 1..Len(agents) /\ agents[i].call = "settled" /\ agents[i].timer = "armed"
  /\ agents' = [agents EXCEPT ![i] =
       [@ EXCEPT !.status = "rejected", !.value = << >>,
                 !.reason = TimeoutMessage(agents[i].agentRole), !.timer = "fired"]]
  /\ UNCHANGED <<impl, state, pc, genResult, agentCache, outcome, trace, synthesisCalls,
                 generationCalls, factoryVars, callerVars>>

\* the timer of agent i, which generate never clears, fires after the
\* generateText call settled the race: timeoutPromise rejects, Promise.race has
\* settled and ignores it
AgentTimerFiresLate(i) ==
  /\ i \in 1..Len(agents) /\ agents[i].call = "settled" /\ agents[i].timer = "armed"
  /\ agents' = [agents EXCEPT ![i] = [@ EXCEPT !.timer = "fired"]]
  /\ UNCHANGED <<impl, state, pc, genResult, agentCache, outcome, trace, synthesisCalls,
                 generationCalls, factoryVars, callerVars>>

\* AgentExecutionCompletes that stops waiting at the first rejection
AgentExecutionCompletes_FailFast ==
  /\ pc = "agent_execution"
  /\ \/ \A i \in 1..Len(agents) : agents[i].status # "pending"
     \/ \E i \in 1..Len(agents) : agents[i].status = "rejected"
  /\ \E st \in {Merge(state, dynamicAgentExecutorNode(state, agents))} :
        /\ state' = st
        /\ EnterStage(shouldContinueAfterAgentExecution(st), st)
  /\ UNCHANGED <<impl, genResult, outcome, synthesisCalls, enableCaching, callerVars>>

\* Promise.allSettled resolves; the node collects, the workflow merges and routes
AgentExecutionCompletes ==
  /\ pc = "agent_execution"
  /\ \A i \in 1..Len(agents) : agents[i].status # "pending"
  /\ \E st \in {Merge(state, dynamicAgentExecutorNode(state, agents))} :
        /\ state' = st
        /\ EnterStage(shouldContinueAfterAgentExecution(st), st)
  /\ UNCHANGED <<impl, genResult, outcome, synthesisCalls, enableCaching, callerVars>>

\* Return that hands a state with errors on to the error handler
Return_ViaErrorHandler(merged) ==
  \E st \in {merged} :
  /\ state' = st
  /\ pc' = IF Len(st.errors) > 0 THEN "error_handling" ELSE "done"
  /\ outcome' = IF Len(st.errors) > 0 THEN "running" ELSE "returned"
  /\ UNCHANGED <<impl, genResult, agents, agentCache, trace, factoryVars, callerVars>>

\* the workflow returns the merged state to its caller
Return(merged) ==
  \E st \in {merged} :
  /\ state' = st
  /\ pc' = "done"
  /\ outcome' = "returned"
  /\ UNCHANGED <<impl, genResult, agents, agentCache, trace, factoryVars, callerVars>>

\* no generateText call was made, so none settled
NotCalled == [kind |-> "none", text |-> << >>, message |-> << >>]

\* synthesizerNode runs, its generateText call (if any) settling with res; the
\* workflow merges and returns
Synthesize(res) ==
  \E r \in {synthesizerNode(state, res)} :
    /\ synthesisCalls' = synthesisCalls \o r.calls
    /\ generationCalls' = generationCalls \o
         (IF Len(r.calls) = 0 THEN << >>
          ELSE [p \in 1..Len(r.calls[1].prompts) |-> GenerationCall("synthesis", 0)])
    /\ Return(Merge(state, r.update))

\* synthesis over at most one output: no generation call
SynthesisLocal ==
  /\ pc = "synthesis" /\ Len(state.agentOutputs) <= 1
  /\ Synthesize(NotCalled)

\* synthesis over several outputs: generateText resolves
SynthesisResolves ==
  /\ pc = "synthesis" /\ Len(state.agentOutputs) > 1
  /\ \E res \in {r \in SynthesisSettlements : r.kind = "text"} : Synthesize(res)

\* SynthesisRejects with no catch block on the way: the rejection reaches the caller
SynthesisRejects_Propagates ==
  /\ pc = "synthesis" /\ Len(state.agentOutputs) > 1
  /\ pc' = "done"
  /\ outcome' = "thrown"
  /\ UNCHANGED <<impl, state, genResult, agents, agentCache, trace, synthesisCalls,
                 generationCalls, factoryVars, callerVars>>

\* synthesis over several outputs: generateText rejects
SynthesisRejects ==
  /\ pc = "synthesis" /\ Len(state.agentOutputs) > 1
  /\ \E res \in {r \in SynthesisSettlements : r.kind = "error"} : Synthesize(res)

\* errorHandlerNode runs and the workflow returns
ErrorHandler ==
  /\ pc = "error_handling"
  /\ Return(Merge(state, errorHandlerNode(state)))
  /\ UNCHANGED <<synthesisCalls, generationCalls>>

Next ==
  \/ StartWorkflow
  \/ GenerateObjectResolves(GenObjects)
  \/ GenerateObjectFails
  \/ RoleAnalysisCompletes
  \/ \E i \in 1..Len(agents) : AgentGenerationResolves(i)
  \/ \E i \in 1..Len(agents) : AgentGenerationRejects(i)
  \/ \E i \in 1..Len(agents) : AgentTimerFires(i)
  \/ AgentExecutionCompletes
  \/ SynthesisLocal
  \/ SynthesisResolves
  \/ SynthesisRejects
  \/ ErrorHandler

Spec == Init /\ [][Next]_vars

\* the steps the workflow takes by itself, timers included; a step of the
\* generation capability is none of them
Scheduled ==
  \/ StartWorkflow
  \/ RoleAnalysisCompletes
  \/ \E i \in 1..Len(agents) : AgentTimerFires(i)
  \/ AgentExecutionCompletes
  \/ SynthesisLocal
  \/ ErrorHandler

\* Scheduling is fair and timers fire; a generation call need not ever settle.
Fairness == WF_vars(Scheduled)

LiveSpec == Init /\ [][Next]_vars /\ Fairness

\* analyzeRoles alone, over a larger set of generated objects
NextAnalyze ==
  \/ StartWorkflow
  \/ GenerateObjectResolves(GenObjectsA)
  \/ GenerateObjectFails
  \/ RoleAnalysisCompletes

SpecAnalyze == Init /\ [][NextAnalyze]_vars

(***************************************************************************)
(* The factory used by itself: any sequence of createAgent and clearCache  *)
(* calls, on a factory with caching enabled or disabled.                   *)
(***************************************************************************)
\* roles handed to createAgent: two ids, and the priority standing for the
\* fields of a role other than its id
FactoryRoles == Roles({"a", "b"}, MaxPriorityA)

InitFactory ==
  /\ InitRun({<< >>}, BOOLEAN)
  /\ toolCall = << >>

CreateAgent(role) ==
  /\ Len(factoryLog) < MaxFactoryCalls
  /\ \E fac \in {createAgent(Factory, role)} :
       /\ agentCache' = fac.agentCache
       /\ constructed' = fac.constructed
       /\ factoryLog' = fac.log
  /\ UNCHANGED <<impl, state, pc, genResult, agents, outcome, trace, synthesisCalls,
                 generationCalls, enableCaching, callerVars>>

ClearCache ==
  /\ Len(factoryLog) < MaxFactoryCalls
  /\ \E fac \in {clearCache(Factory)} :
       /\ agentCache' = fac.agentCache
       /\ constructed' = fac.constructed
       /\ factoryLog' = fac.log
  /\ UNCHANGED <<impl, state, pc, genResult, agents, outcome, trace, synthesisCalls,
                 generationCalls, enableCaching, callerVars>>

NextFactory ==
  \/ \E role \in FactoryRoles : CreateAgent(role)
  \/ ClearCache

SpecFactory == InitFactory /\ [][NextFactory]_vars

(***************************************************************************)
(* synthesizerNode called by itself, on a state holding any agent outputs  *)
(* (none included) and any strategy.                                       *)
(***************************************************************************)
OutputEntries ==
  {[key |-> id, value |-> BuildAgentOutput([id |-> id, priority |-> 1], t)] :
     id \in RoleIds, t \in Texts}

\* agentOutputs objects of at most MaxOutputs entries
AgentOutputMaps ==
  {m \in UNION {[1..n -> OutputEntries] : n \in 0..MaxOutputs} :
     \A i, j \in 1..Len(m) : m[i].key = m[j].key => i = j}

InitSynth ==
  /\ now = 0
  /\ impl \in {"sequential", "langgraph"}
  /\ \E c \in UserConstraintsR, m \in AgentOutputMaps :
       state = [createInitialState(<<"request">>, c) EXCEPT !.agentOutputs = m]
  /\ pc = "synthesis"
  /\ genResult = << >>
  /\ agents = << >>
  /\ agentCache = [id \in AllRoleIds |-> << >>]
  /\ outcome = "running"
  /\ trace = <<"synthesis">>
  /\ synthesisCalls = << >>
  /\ generationCalls = << >>
  /\ enableCaching = TRUE
  /\ constructed = 0
  /\ factoryLog = << >>
  /\ formatted = << >>
  /\ toolCall = << >>
  /\ toolResult = << >>
  /\ validation = << >>

NextSynth ==
  \/ SynthesisLocal
  \/ SynthesisResolves
  \/ SynthesisRejects

SpecSynth == InitSynth /\ [][NextSynth]_vars

(***************************************************************************)
(* Requests: the workflow run by a caller with any strategy, or by the     *)
(* multiAgentWriting tool, which formats the final state and returns.      *)
(***************************************************************************)
GenObjectsR ==
  {obj \in GenObjectsOf(RoleIds, MaxGenRolesR, MaxGenRolesR) :
     \A i \in 1..Len(obj) : obj[i].priority = i}

\* the parameters of the tool that reach the workflow
ToolParams == [synthesisStrategy : OptionalOf(SynthesisStrategy)]

\* the constraints multiAgentWriting.execute hands to createInitialState
multiAgentWritingConstraints(params) ==
  [preferredRoles |-> << >>,
   synthesisStrategy |-> IF params.synthesisStrategy # << >>
                         THEN params.synthesisStrategy
                         ELSE <<INTERLEAVING>>]

InitRequest ==
  \/ /\ InitRun(UserConstraintsR, {TRUE})
     /\ toolCall = << >>
  \/ \E params \in ToolParams :
       /\ InitRun({<<multiAgentWritingConstraints(params)>>}, {TRUE})
       /\ toolCall = <<params>>

\* multiAgentWriting.execute after the workflow returned: format and return
ToolReturns ==
  /\ pc = "done" /\ toolCall # << >> /\ toolResult = << >>
  /\ \E output \in {formatMultiAgentOutput(state)} :
       /\ formatted' = Append(formatted, output)
       /\ toolResult' = <<[success |-> TRUE,
                           content |-> output.finalContent,
                           metadata |-> [strategy |-> output.metadata.synthesisStrategy,
                                         duration |-> output.metadata.duration]]>>
  /\ UNCHANGED <<impl, state, pc, genResult, agents, agentCache, outcome, trace,
                 synthesisCalls, generationCalls, factoryVars, now, toolCall, validation>>

NextRequest ==
  \/ StartWorkflow
  \/ GenerateObjectResolves(GenObjectsR)
  \/ GenerateObjectFails
  \/ RoleAnalysisCompletes
  \/ \E i \in 1..Len(agents) : AgentGenerationResolves(i)
  \/ \E i \in 1..Len(agents) : AgentGenerationRejects(i)
  \/ \E i \in 1..Len(agents) : AgentTimerFires(i)
  \/ AgentExecutionCompletes
  \/ SynthesisLocal
  \/ SynthesisResolves
  \/ SynthesisRejects
  \/ ErrorHandler
  \/ ToolReturns

SpecRequest == InitRequest /\ [][NextRequest]_vars

(***************************************************************************)
(* Formatting: time passes, and a caller formats the terminal state of its *)
(* run, possibly more than once.                                           *)
(***************************************************************************)
InitFormat ==
  /\ InitRun(UserConstraintsR, {TRUE})
  /\ toolCall = << >>

\* a millisecond passes
Tick ==
  /\ now < MaxTime
  /\ now' = now + 1
  /\ UNCHANGED <<impl, state, pc, genResult, agents, agentCache, outcome, trace,
                 synthesisCalls, generationCalls, factoryVars, formatted, toolCall, toolResult,
                 validation>>

\* the caller formats the state the workflow returned
FormatOutput ==
  /\ pc = "done" /\ Len(formatted) < MaxFormatCalls
  /\ formatted' = Append(formatted, formatMultiAgentOutput(state))
  /\ UNCHANGED <<impl, state, pc, genResult, agents, agentCache, outcome, trace,
                 synthesisCalls, generationCalls, factoryVars, now, toolCall, toolResult,
                 validation>>

NextFormat ==
  \/ StartWorkflow
  \/ GenerateObjectResolves(GenObjectsR)
  \/ GenerateObjectFails
  \/ RoleAnalysisCompletes
  \/ \E i \in 1..Len(agents) : AgentGenerationResolves(i)
  \/ \E i \in 1..Len(agents) : AgentGenerationRejects(i)
  \/ \E i \in 1..Len(agents) : AgentTimerFires(i)
  \/ AgentExecutionCompletes
  \/ SynthesisLocal
  \/ SynthesisResolves
  \/ SynthesisRejects
  \/ ErrorHandler
  \/ Tick
  \/ FormatOutput

SpecFormat == InitFormat /\ [][NextFormat]_vars

(***************************************************************************)
(* Fan-out and fan-in: time passes while the agents run, so that the order *)
(* in which they settle is recorded, and a generation call that lost the   *)
(* race against its timer may still settle afterwards.  The clock is       *)
(* watched during agent execution only.                                    *)
(***************************************************************************)
\* objects generateObject resolves with here: two ids, duplicates included
GenObjectsF ==
  {obj \in GenObjectsOf({"a", "b"}, MaxGenRolesR, MaxGenRolesR) :
     \A i \in 1..Len(obj) : obj[i].priority = i}

InitFanOut ==
  /\ InitRun({<< >>}, {TRUE})
  /\ toolCall = << >>

NextFanOut ==
  \/ StartWorkflow
  \/ GenerateObjectResolves(GenObjectsF)
  \/ GenerateObjectFails
  \/ RoleAnalysisCompletes
  \/ \E i \in 1..Len(agents) : AgentGenerationResolves(i)
  \/ \E i \in 1..Len(agents) : AgentGenerationRejects(i)
  \/ \E i \in 1..Len(agents) : AgentTimerFires(i)
  \/ \E i \in 1..Len(agents) : AgentGenerationArrivesLate(i)
  \/ AgentExecutionCompletes
  \/ SynthesisLocal
  \/ SynthesisResolves
  \/ SynthesisRejects
  \/ ErrorHandler
  \/ (pc = "agent_execution" /\ Tick)

SpecFanOut == InitFanOut /\ [][NextFanOut]_vars

(***************************************************************************)
(* The race inside generate, with both late events: a generateText call    *)
(* that settles after the timer fired, and a timer, never cleared, that    *)
(* fires after the generateText call settled, at any later point of the    *)
(* run or after it.                                                        *)
(***************************************************************************)
InitRace ==
  /\ InitRun({<< >>}, {TRUE})
  /\ toolCall = << >>

NextRace ==
  \/ StartWorkflow
  \/ GenerateObjectResolves(GenObjectsF)
  \/ GenerateObjectFails
  \/ RoleAnalysisCompletes
  \/ \E i \in 1..Len(agents) : AgentGenerationResolves(i)
  \/ \E i \in 1..Len(agents) : AgentGenerationRejects(i)
  \/ \E i \in 1..Len(agents) : AgentTimerFires(i)
  \/ \E i \in 1..Len(agents) : AgentGenerationArrivesLate(i)
  \/ \E i \in 1..Len(agents) : AgentTimerFiresLate(i)
  \/ AgentExecutionCompletes
  \/ SynthesisLocal
  \/ SynthesisResolves
  \/ SynthesisRejects
  \/ ErrorHandler

SpecRace == InitRace /\ [][NextRace]_vars

(***************************************************************************)
(* The formatter called by itself, on states in which the optional fields  *)
(* may be missing; no workflow runs.                                       *)
(***************************************************************************)
\* role analyses a state may hold: any reasoning (empty included), any confidence
RoleAnalyses ==
  [identifiedRoles : {FallbackAnalysis.identifiedRoles},
   reasoning : Texts,
   confidence : {0, 85}]

ErrorLists == {<< >>, <<GenErrorMessage>>}

InitProjection ==
  /\ now = 0
  /\ impl = "sequential"
  /\ \E analysis \in OptionalOf(RoleAnalyses), m \in AgentOutputMaps,
        content \in OptionalOf(Texts), errs \in ErrorLists :
       state = [createInitialState(<<"request">>, << >>) EXCEPT
                  !.roleAnalysis = analysis, !.agentOutputs = m,
                  !.synthesizedContent = content, !.errors = errs]
  /\ pc = "done"
  /\ genResult = << >>
  /\ agents = << >>
  /\ agentCache = [id \in AllRoleIds |-> << >>]
  /\ outcome = "returned"
  /\ trace = << >>
  /\ synthesisCalls = << >>
  /\ generationCalls = << >>
  /\ enableCaching = TRUE
  /\ constructed = 0
  /\ factoryLog = << >>
  /\ formatted = << >>
  /\ toolCall = << >>
  /\ toolResult = << >>
  /\ validation = << >>

NextProjection ==
  \/ Tick
  \/ FormatOutput

SpecProjection == InitProjection /\ [][NextProjection]_vars

(***************************************************************************)
(* validateRoleAnalysis called by itself on any analysis object: a role's  *)
(* text fields may be undefined (<< >>), the empty string or a text, its   *)
(* priority undefined or a number.                                         *)
(***************************************************************************)
Undefined == << >>
EmptyString == <<(<< >>)>>

\* a role with all fields set
FullRole(id) ==
  [id |-> <<(<<id>>)>>, name |-> <<(<<"name">>)>>, description |-> <<(<<"description">>)>>,
   promptTemplate |-> <<(<<"template">>)>>, priority |-> <<1>>]

\* the roles an analysis under validation is made of
ValidatedRoles ==
  {FullRole(id) : id \in {"a", "b", "c", "d"}}
    \cup {[FullRole("b") EXCEPT !.name = EmptyString],
          [FullRole("c") EXCEPT !.priority = Undefined],
          [FullRole("d") EXCEPT !.id = Undefined]}

\* confidences in hundredths, on both sides of both ends of [0,1]
ValidatedConfidences == {0 - 1, 0, 100, 101}

\* !value for a string that may be undefined
Falsy(field) == field = Undefined \/ field = EmptyString

RECURSIVE MissingFieldErrors(_)
\* the loop over identifiedRoles of validateRoleAnalysis
MissingFieldErrors(roles) ==
  IF Len(roles) = 0 THEN << >>
  ELSE LET role == roles[1]
       IN (IF Falsy(role.id) \/ Falsy(role.name) \/ Falsy(role.description)
              \/ Falsy(role.promptTemplate)
           THEN <<(<<"Role ">> \o (IF Falsy(role.id) THEN <<"unknown">> ELSE role.id[1])
                   \o <<" is missing required fields">>)>>
           ELSE << >>)
          \o MissingFieldErrors(Tail(roles))

\* validateRoleAnalysis that does not look for duplicate ids
validateRoleAnalysis_NoUniqueness(analysis) ==
  LET n == Len(analysis.identifiedRoles)
      errors ==
        (IF n < DEFAULT_MIN_ROLES
         THEN <<(<<"Must have at least ", ToString(DEFAULT_MIN_ROLES), " roles, got ", ToString(n)>>)>>
         ELSE << >>)
        \o (IF n > DEFAULT_MAX_ROLES
            THEN <<(<<"Must have at most ", ToString(DEFAULT_MAX_ROLES), " roles, got ", ToString(n)>>)>>
            ELSE << >>)
        \o (IF analysis.confidence < 0 \/ analysis.confidence > 100
            THEN <<(<<"Confidence must be between 0.0 and 1.0">>)>> ELSE << >>)
        \o MissingFieldErrors(analysis.identifiedRoles)
  IN [valid |-> Len(errors) = 0, errors |-> errors]

validateRoleAnalysis(analysis) ==
  LET n == Len(analysis.identifiedRoles)
      roleIds == [i \in 1..n |-> analysis.identifiedRoles[i].id]
      uniqueIds == {roleIds[i] : i \in 1..n}
      errors ==
        (IF n < DEFAULT_MIN_ROLES
         THEN <<(<<"Must have at least ", ToString(DEFAULT_MIN_ROLES), " roles, got ", ToString(n)>>)>>
         ELSE << >>)
        \o (IF n > DEFAULT_MAX_ROLES
            THEN <<(<<"Must have at most ", ToString(DEFAULT_MAX_ROLES), " roles, got ", ToString(n)>>)>>
            ELSE << >>)
        \o (IF Len(roleIds) # Cardinality(uniqueIds)
            THEN <<(<<"Role IDs must be unique">>)>> ELSE << >>)
        \o (IF analysis.confidence < 0 \/ analysis.confidence > 100
            THEN <<(<<"Confidence must be between 0.0 and 1.0">>)>> ELSE << >>)
        \o MissingFieldErrors(analysis.identifiedRoles)
  IN [valid |-> Len(errors) = 0, errors |-> errors]

\* a caller holds any analysis object and has not validated it yet
InitValidate ==
  /\ now = 0
  /\ impl = "sequential"
  /\ \E n \in 0..MaxValidatedRoles :
       \E roles \in [1..n -> ValidatedRoles], confidence \in ValidatedConfidences :
         state = [createInitialState(<<"request">>, << >>) EXCEPT
                    !.roleAnalysis = <<[identifiedRoles |-> roles,
                                        reasoning |-> <<"reasoning">>,
                                        confidence |-> confidence]>>]
  /\ pc = "start"
  /\ genResult = << >>
  /\ agents = << >>
  /\ agentCache = [id \in AllRoleIds |-> << >>]
  /\ outcome = "running"
  /\ trace = << >>
  /\ synthesisCalls = << >>
  /\ generationCalls = << >>
  /\ enableCaching = TRUE
  /\ constructed = 0
  /\ factoryLog = << >>
  /\ formatted = << >>
  /\ toolCall = << >>
  /\ toolResult = << >>
  /\ validation = << >>

\* the caller calls validateRoleAnalysis on the analysis
Validate ==
  /\ validation = << >> /\ state.roleAnalysis # << >>
  /\ validation' = <<validateRoleAnalysis(state.roleAnalysis[1])>>
  /\ UNCHANGED <<impl, state, pc, genResult, agents, agentCache, outcome, trace,
                 synthesisCalls, generationCalls, factoryVars, now, formatted, toolCall,
                 toolResult>>

NextValidate == Validate

SpecValidate == InitValidate /\ [][NextValidate]_vars

(***************************************************************************)
(* Two requests served one after the other by the same process: each run   *)
(* gets its own state from createInitialState, the module-level            *)
(* agentFactory and its cache stay.                                        *)
(***************************************************************************)
FirstRequest == <<"request">>
SecondRequest == <<"second request">>

InitIsolation ==
  /\ InitRun({<< >>}, {TRUE})
  /\ toolCall = << >>

\* the first run has returned; a caller runs the workflow for another request
\* on a fresh initial state
SecondRun ==
  /\ pc = "done" /\ state.userRequest = FirstRequest
  /\ state' = createInitialState(SecondRequest, << >>)
  /\ pc' = "start"
  /\ genResult' = << >>
  /\ agents' = << >>
  /\ outcome' = "running"
  /\ trace' = << >>
  /\ synthesisCalls' = << >>
  /\ generationCalls' = << >>
  /\ UNCHANGED <<impl, agentCache, factoryVars, callerVars>>

NextIsolation ==
  \/ StartWorkflow
  \/ GenerateObjectResolves(GenObjectsF)
  \/ GenerateObjectFails
  \/ RoleAnalysisCompletes
  \/ \E i \in 1..Len(agents) : AgentGenerationResolves(i)
  \/ \E i \in 1..Len(agents) : AgentGenerationRejects(i)
  \/ \E i \in 1..Len(agents) : AgentTimerFires(i)
  \/ AgentExecutionCompletes
  \/ SynthesisLocal
  \/ SynthesisResolves
  \/ SynthesisRejects
  \/ ErrorHandler
  \/ SecondRun

SpecIsolation == InitIsolation /\ [][NextIsolation]_vars

(***************************************************************************)
(* Properties.                                                             *)
(***************************************************************************)
AwaitingAnalysis == pc = "role_analysis" /\ genResult = << >>
AwaitingSynthesis == pc = "synthesis" /\ Len(state.agentOutputs) > 1

C1_NeverThrows ==
  /\ outcome \in {"running", "returned"}
  /\ (pc = "done") <=> (outcome = "returned")

AnalysisCallFailed == genResult # << >> /\ genResult[1].kind # "object"

\* C1 witness: the run has ended after a failed analysis call and a failed agent.
C1_Witness ==
  /\ pc = "done" /\ outcome = "returned"
  /\ AnalysisCallFailed
  /\ \E i \in 1..Len(agents) : agents[i].status = "rejected"

\* no generation call of the run returned an empty text, and the analysis kept
\* at least the minimum number of roles
NothingBlankGenerated ==
  /\ state.roleAnalysis # << >>
  /\ Len(state.roleAnalysis[1].identifiedRoles) >= DEFAULT_MIN_ROLES
  /\ \A i \in 1..Len(agents) :
       agents[i].status = "fulfilled" => agents[i].value[1].content # << >>
  /\ state.synthesizedContent # << << >> >>

\* C3 (as stated): in every terminal state the formatted response has a non-blank
\* finalContent, and the messages of recorded errors are in finalContent or in
\* metadata.warnings.  Stated for the runs most favourable to the claim, those
\* in which no generated text was itself blank.
C3_FinalContentNeverBlank ==
  (pc = "done" /\ NothingBlankGenerated) =>
    LET out == formatMultiAgentOutput(state)
    IN /\ out.finalContent # << >>
       /\ \A k \in 1..Len(state.errors) :
            \/ Includes(out.finalContent, state.errors[k])
            \/ \E w \in 1..Len(out.metadata.warnings) :
                 out.metadata.warnings[w] = state.errors[k]

AllAgentsRejectedByGeneration ==
  \A i \in 1..Len(agents) :
    agents[i].status = "rejected" /\ agents[i].reason = GenErrorMessage

AllGenerationCallsFailed ==
  AnalysisCallFailed /\ Len(agents) > 0 /\ AllAgentsRejectedByGeneration

\* C4: when every generation call fails, the workflow returns with at least one
\* error and synthesizedContent a non-empty summary containing every recorded
\* error message.
C4_AllCallsFail ==
  (pc = "done" /\ AllGenerationCallsFailed) =>
    /\ outcome = "returned"
    /\ Len(state.errors) >= 1
    /\ state.synthesizedContent # << >>
    /\ state.synthesizedContent[1] # << >>
    /\ \A k \in 1..Len(state.errors) :
         Includes(state.synthesizedContent[1], state.errors[k])

\* C4 witness: a finished run in which every generation call failed.
C4_Witness == pc = "done" /\ AllGenerationCallsFailed

RoleIdsOfRun == [i \in 1..Len(agents) |-> agents[i].roleId]

UniqueId(i) == \A j \in 1..Len(agents) : RoleIdsOfRun[j] = RoleIdsOfRun[i] => j = i

\* C5 (as stated): if role A's agent fails and role B's succeeds, the final
\* agentOutputs has an entry for B and none for A, and exactly one entry of
\* errors references A.
C5_FanOutIndependence ==
  pc = "done" =>
    \A a, b \in 1..Len(agents) :
      (agents[a].status = "rejected" /\ agents[b].status = "fulfilled" /\ UniqueId(a))
      => /\ HasKey(state.agentOutputs, RoleIdsOfRun[b])
         /\ ~HasKey(state.agentOutputs, RoleIdsOfRun[a])
         /\ Cardinality({k \in 1..Len(state.errors) :
                           Includes(state.errors[k], <<RoleIdsOfRun[a]>>)}) = 1

StageAfter(stage) ==
  {trace[k + 1] : k \in {n \in 1..(Len(trace) - 1) : trace[n] = stage}}

\* C6: after agent_execution the workflow goes to synthesis iff agentOutputs is
\* non-empty (some role succeeded), and to error_handling only if every role failed.
C6_RouteAfterAgentExecution ==
  \A next \in StageAfter("agent_execution") :
    /\ next \in {"synthesis", "error_handling"}
    /\ (next = "synthesis") <=> (Len(state.agentOutputs) > 0)
    /\ (next = "synthesis") <=> (\E i \in 1..Len(agents) : agents[i].status = "fulfilled")
    /\ (next = "error_handling") => (\A i \in 1..Len(agents) : agents[i].status = "rejected")

\* C6 witness: synthesis was entered after an agent execution in which one agent
\* failed and another succeeded.
C6_Witness ==
  /\ "synthesis" \in StageAfter("agent_execution")
  /\ \E i, j \in 1..Len(agents) :
       agents[i].status = "rejected" /\ agents[j].status = "fulfilled"

\* C7: after role_analysis the workflow goes to error_handling iff the analysis
\* stage recorded an entry in errors, and to agent_execution otherwise.
C7_RouteAfterRoleAnalysis ==
  [][(pc = "role_analysis" /\ pc' # "role_analysis") =>
       /\ pc' \in {"error_handling", "agent_execution"}
       /\ (pc' = "error_handling") <=> (Len(state'.errors) > Len(state.errors))]_vars

\* C7 witness: agent execution was entered after an analysis that recorded no error.
C7_Witness ==
  /\ pc = "agent_execution"
  /\ trace = <<"role_analysis", "agent_execution">>
  /\ state.roleAnalysis # << >>
  /\ state.errors = << >>

\* C8 (as stated): the RoleAnalysis returned by analyzeRoles has between 2 and 4
\* identifiedRoles, for every accepted request and every generated object.
C8_RoleCountInRange ==
  state.roleAnalysis # << >> =>
    /\ Len(state.roleAnalysis[1].identifiedRoles) >= DEFAULT_MIN_ROLES
    /\ Len(state.roleAnalysis[1].identifiedRoles) <= DEFAULT_MAX_ROLES

\* analyzeRoles has returned after trimming the generated object
Trimmed ==
  /\ state.roleAnalysis # << >>
  /\ genResult[1].kind = "object"
  /\ Len(genResult[1].object) >= DEFAULT_MIN_ROLES
  /\ Len(genResult[1].object) > MaxRolesFor(state.userConstraints)

\* role j of orig comes before role i: lower priority value, original order on ties
Before(orig, j, i) ==
  \/ orig[j].priority < orig[i].priority
  \/ orig[j].priority = orig[i].priority /\ j < i

Rank(orig, i) == Cardinality({j \in 1..Len(orig) : Before(orig, j, i)})

\* C9: a trim keeps exactly the max roles with the lowest priority values, in
\* ascending priority order, ties in original order.
C9_TrimKeepsLowestPriorities ==
  Trimmed =>
    LET orig == genResult[1].object
        kept == state.roleAnalysis[1].identifiedRoles
        max == MaxRolesFor(state.userConstraints)
    IN /\ Len(kept) = max
       /\ \A k \in 1..max : \E i \in 1..Len(orig) : Rank(orig, i) = k - 1 /\ kept[k] = orig[i]

\* C9 witness: a trim to at least two roles that reordered the list and had to
\* break a tie between roles of equal priority.
C9_Witness ==
  /\ Trimmed
  /\ MaxRolesFor(state.userConstraints) >= 2
  /\ state.roleAnalysis[1].identifiedRoles #
       SubSeq(genResult[1].object, 1, MaxRolesFor(state.userConstraints))
  /\ \E i, j \in 1..Len(genResult[1].object) :
       /\ i < j
       /\ genResult[1].object[i].priority = genResult[1].object[j].priority
       /\ genResult[1].object[i] # genResult[1].object[j]

\* C10 (as stated): errors is append-only: every step leaves the previous errors
\* sequence a prefix of the new one.
C10_ErrorsAppendOnly == [][IsPrefix(state.errors, state'.errors)]_vars

\* the ids of roleAnalysis.identifiedRoles, none while roleAnalysis is unset
IdentifiedRoleIds ==
  IF state.roleAnalysis = << >> THEN {}
  ELSE {state.roleAnalysis[1].identifiedRoles[i].id :
          i \in 1..Len(state.roleAnalysis[1].identifiedRoles)}

\* C11: in every reachable state the keys of agentOutputs are ids of the run's
\* identifiedRoles, and there are none while roleAnalysis is unset; each output
\* is stored under the id of the role that wrote it.
C11_OutputKeysAreRoleIds ==
  /\ Keys(state.agentOutputs) \subseteq IdentifiedRoleIds
  /\ \A i \in 1..Len(state.agentOutputs) :
       state.agentOutputs[i].value.roleId = state.agentOutputs[i].key

\* C11 witness: the executor has stored outputs for some of the identified roles
\* and not for all of them.
C11_Witness ==
  /\ Len(state.agentOutputs) > 0
  /\ Keys(state.agentOutputs) # IdentifiedRoleIds
  /\ Keys(state.agentOutputs) \subseteq IdentifiedRoleIds

\* C12: once synthesizedContent is set the run is terminal: a step that sets it
\* ends the run, and afterwards no stage executes and synthesizedContent (with
\* the rest of the state) stays as it is.
C12_TerminalOnceContentSet ==
  [][/\ (state'.synthesizedContent # << >>) => (pc' = "done")
     /\ (state.synthesizedContent # << >>) =>
          /\ pc' = "done"
          /\ trace' = trace
          /\ state' = state]_vars

\* C12 witness: the synthesizer set synthesizedContent, after an agent had
\* failed, and the run is over.
C12_Witness ==
  /\ pc = "done"
  /\ state.synthesizedContent # << >>
  /\ trace[Len(trace)] = "synthesis"
  /\ Len(state.errors) > 0

\* positions in the factory's log of the createAgent calls
CreateCalls == {i \in 1..Len(factoryLog) : factoryLog[i].op = "createAgent"}

NoClearBetween(i, j) == \A k \in i..j : factoryLog[k].op # "clearCache"

\* C13: with caching enabled, two createAgent calls for roles of the same id with
\* no clearCache in between return the same agent instance, whatever the roles'
\* other fields are; with caching disabled every call returns a distinct new
\* instance.
C13_CacheByRoleId ==
  \A i, j \in CreateCalls :
    i < j =>
      IF enableCaching
      THEN (factoryLog[i].role[1].id = factoryLog[j].role[1].id /\ NoClearBetween(i, j))
             => factoryLog[j].agent = factoryLog[i].agent
      ELSE factoryLog[j].agent[1].instance # factoryLog[i].agent[1].instance

\* C13 witness: with caching enabled, createAgent was called twice, with no
\* clearCache in between, for roles of the same id whose other fields differ.
C13_Witness ==
  /\ enableCaching
  /\ \E i, j \in CreateCalls :
       /\ i < j /\ NoClearBetween(i, j)
       /\ factoryLog[i].role[1].id = factoryLog[j].role[1].id
       /\ factoryLog[i].role[1] # factoryLog[j].role[1]
       /\ factoryLog[j].agent[1].roleDefinition = factoryLog[i].role[1]

\* C14: synthesis over exactly one AgentOutput passes it through, for every
\* strategy: the content returned is that output's content, no error is
\* recorded, and the one call of synthesizeOutputs sent no prompt to generateText.
C14_SingleOutputPassThrough ==
  (pc = "done" /\ Len(state.agentOutputs) = 1) =>
    /\ state.synthesizedContent = <<state.agentOutputs[1].value.content>>
    /\ state.errors = << >>
    /\ Len(synthesisCalls) = 1
    /\ synthesisCalls[1].prompts = << >>

\* C14 witness: synthesizerNode has run on a single non-empty output under a
\* strategy the caller chose, other than the default.
C14_Witness ==
  /\ pc = "done"
  /\ Len(state.agentOutputs) = 1
  /\ state.agentOutputs[1].value.content # << >>
  /\ StrategyOr(state, BLENDING) = LAYERING
  /\ Len(synthesisCalls) = 1

\* C15: synthesis over zero outputs is an error, never an empty success:
\* synthesizeOutputs throws whatever the strategy, and synthesizerNode on a
\* state with empty agentOutputs records an error and leaves synthesizedContent
\* unset.
C15_ZeroOutputsIsError ==
  /\ \A s \in SynthesisStrategy, res \in SynthesisSettlements \cup {NotCalled} :
       LET r == synthesizeOutputs(<< >>, state.userRequest, s, res)
       IN r.kind = "threw" /\ r.message # << >> /\ r.prompts = << >>
  /\ (pc = "done" /\ Len(state.agentOutputs) = 0) =>
       /\ state.synthesizedContent = << >>
       /\ state.errors = << <<"No agent outputs to synthesize">> >>

\* C15 witness: synthesizerNode has run on a state with no agent outputs.
C15_Witness ==
  /\ pc = "done"
  /\ trace = <<"synthesis">>
  /\ Len(state.agentOutputs) = 0
  /\ Len(state.errors) = 1

\* C16 (as stated): two calls of formatMultiAgentOutput on the same terminal
\* state, at any two times, return outputs identical in every field except
\* metadata.duration, and the later duration is not smaller than the earlier.
C16_FormatIdempotentUpToDuration ==
  \A i, j \in 1..Len(formatted) :
    i < j =>
      /\ [formatted[j] EXCEPT !.metadata.duration = formatted[i].metadata.duration]
           = formatted[i]
      /\ formatted[j].metadata.duration >= formatted[i].metadata.duration

\* a finished run in which an agent succeeded, an agent failed and the
\* synthesizer produced the content
PartialSuccess ==
  /\ pc = "done"
  /\ \E i \in 1..Len(agents) : agents[i].status = "fulfilled"
  /\ \E i \in 1..Len(agents) : agents[i].status = "rejected"
  /\ trace[Len(trace)] = "synthesis"
  /\ state.synthesizedContent # << >>

\* C17: partial success is reported as content plus warnings: the formatted
\* response has finalContent equal to the synthesized content and
\* metadata.warnings equal to the run's errors, which hold one entry for each
\* failed agent, with that agent's failure.
C17_PartialSuccessHasContentAndWarnings ==
  PartialSuccess =>
    LET out == formatMultiAgentOutput(state)
        failed == {i \in 1..Len(agents) : agents[i].status = "rejected"}
    IN /\ out.finalContent = state.synthesizedContent[1]
       /\ out.metadata.warnings = state.errors
       /\ Len(out.metadata.warnings) = Cardinality(failed)
       /\ \A i \in failed :
            \E k \in 1..Len(out.metadata.warnings) :
              out.metadata.warnings[k] = <<"Agent failed: ", "Error: ">> \o agents[i].reason

\* C17 witness: one agent timed out, two succeeded, and the synthesizer's
\* generation call returned a non-empty text.
C17_Witness ==
  /\ PartialSuccess
  /\ Len(state.agentOutputs) = 2
  /\ state.synthesizedContent[1] # << >>
  /\ \E i \in 1..Len(agents) : agents[i].reason = TimeoutMessage(agents[i].agentRole)

\* the strategy of the run: the one in the caller's constraints when given,
\* blending when unspecified
StrategyOfRun ==
  IF state.userConstraints = << >> THEN "blending"
  ELSE IF state.userConstraints[1].synthesisStrategy = << >> THEN "blending"
  ELSE state.userConstraints[1].synthesisStrategy[1]

C19_ToolDefaultsToBlending ==
  (toolCall # << >> /\ toolCall[1].synthesisStrategy = << >>) =>
    /\ \A k \in 1..Len(synthesisCalls) : synthesisCalls[k].strategy = "blending"
    /\ (toolResult # << >>) => (toolResult[1].metadata.strategy = "blending")

\* the structured generation call of analyzeRoles failed: it rejected, carried
\* no object, or carried fewer roles than the minimum
AnalysisFailed ==
  /\ genResult # << >>
  /\ \/ genResult[1].kind # "object"
     \/ Len(genResult[1].object) < 2

\* C20: soft fallback: when the structured generation call fails, analyzeRoles
\* returns content_writer (priority 1) and editor (priority 2) with confidence
\* 0.5 and a reasoning that notes the fallback; roleAnalyzerNode sets
\* roleAnalysis, records no error, and the run goes on to agent execution.
C20_SoftFallback ==
  (AnalysisFailed /\ pc # "role_analysis") =>
    /\ state.roleAnalysis # << >>
    /\ state.roleAnalysis[1].identifiedRoles =
         <<[id |-> "content_writer", priority |-> 1], [id |-> "editor", priority |-> 2]>>
    /\ state.roleAnalysis[1].confidence * 2 = 100
    /\ state.roleAnalysis[1].reasoning = <<"Using fallback roles due to analysis error">>
    /\ trace[2] = "agent_execution"
    /\ (pc = "agent_execution") => (state.errors = << >>)

\* C20 witness: the generation call rejected and the analysis has completed.
C20_Witness ==
  /\ genResult # << >>
  /\ genResult[1].kind = "error"
  /\ pc = "agent_execution"
  /\ state.currentNode = <<"role_analyzer">>

\* C21 (as stated): if the generation capability returns fewer than 2 roles,
\* the role-analysis stage fails: it records an error and the run does not go
\* on to agent execution with some role set.
C21_TooFewRolesFailsTheStage ==
  (/\ genResult # << >>
   /\ genResult[1].kind = "object"
   /\ Len(genResult[1].object) < DEFAULT_MIN_ROLES
   /\ pc # "role_analysis")
  => /\ Len(state.errors) > 0
     /\ state.roleAnalysis = << >>
     /\ pc # "agent_execution"

\* C22 (as stated): in every RoleAnalysis the workflow stores in roleAnalysis
\* and fans out over, the ids of identifiedRoles are pairwise distinct.
C22_RoleIdsPairwiseDistinct ==
  state.roleAnalysis # << >> =>
    LET roles == state.roleAnalysis[1].identifiedRoles
    IN \A i, j \in 1..Len(roles) : roles[i].id = roles[j].id => i = j

\* C24 (as stated): every AgentOutput stored in agentOutputs has non-empty
\* content; an agent whose generation call returns empty text is not a success.
C24_StoredContentNonEmpty ==
  \A k \in 1..Len(state.agentOutputs) : state.agentOutputs[k].value.content # << >>

\* the timer of agent i fired before its generation call completed
TimerWon(i) ==
  /\ agents[i].status # "pending"
  /\ (agents[i].call = "in_flight" \/ agents[i].lateText # << >>)

\* the text appears in what the run stored or handed on: an agentOutputs
\* content, a prompt sent by the synthesizer, the synthesized content
AppearsInRun(text) ==
  \/ \E k \in 1..Len(state.agentOutputs) : Includes(state.agentOutputs[k].value.content, text)
  \/ \E k \in 1..Len(synthesisCalls) : \E p \in 1..Len(synthesisCalls[k].prompts) :
       Includes(synthesisCalls[k].prompts[p], text)
  \/ (state.synthesizedContent # << >> /\ Includes(state.synthesizedContent[1], text))

\* C23: when an agent's timer fires before its generation call completes,
\* generate fails with an error naming the role id and the configured timeout,
\* and a generation result arriving after the timeout is discarded: it appears
\* neither in agentOutputs nor in what the synthesizer reads or produces.
C23_TimeoutAllOrNothing ==
  \A i \in 1..Len(agents) :
    TimerWon(i) =>
      /\ agents[i].status = "rejected"
      /\ agents[i].value = << >>
      /\ Includes(agents[i].reason, <<agents[i].agentRole.id>>)
      /\ Includes(agents[i].reason, <<ToString(AgentTimeout)>>)
      /\ (pc \in {"synthesis", "error_handling"})
           => \E k \in 1..Len(state.errors) :
                /\ Includes(state.errors[k], <<agents[i].agentRole.id>>)
                /\ Includes(state.errors[k], <<ToString(AgentTimeout)>>)
      /\ (pc \in {"synthesis", "error_handling", "done"} /\ UniqueId(i))
           => ~HasKey(state.agentOutputs, agents[i].roleId)
      /\ (agents[i].lateText # << >>) => ~AppearsInRun(agents[i].lateText[1])

\* C23 witness: one agent timed out and its call delivered a text afterwards,
\* the other agent succeeded, and the run has ended with synthesized content.
C23_Witness ==
  /\ pc = "done"
  /\ Len(state.agentOutputs) > 0
  /\ state.synthesizedContent # << >>
  /\ \E i \in 1..Len(agents) : agents[i].status = "rejected" /\ agents[i].lateText # << >>

\* C25: fan-in waits for all: agent execution ends, and synthesis or error
\* handling starts, only when every identified role's agent has settled; a
\* rejected agent does not end the stage while a sibling is pending, and every
\* fulfilled agent, however late it settled, has its output in agentOutputs.
C25_FanInWaitsForAll ==
  [][(pc = "agent_execution" /\ pc' # "agent_execution") =>
       /\ pc' \in {"synthesis", "error_handling"}
       /\ \A i \in 1..Len(agents) : agents[i].status # "pending"
       /\ \A i \in 1..Len(agents) :
            agents[i].status = "fulfilled" =>
              /\ HasKey(state'.agentOutputs, agents[i].roleId)
              /\ UniqueId(i) =>
                   \E k \in 1..Len(state'.agentOutputs) :
                     /\ state'.agentOutputs[k].key = agents[i].roleId
                     /\ state'.agentOutputs[k].value = agents[i].value[1]]_vars

\* C25 witness: one agent was rejected, its sibling settled later and was
\* fulfilled, and synthesis has started with the sibling's output stored.
C25_Witness ==
  /\ pc = "synthesis"
  /\ \E i, j \in 1..Len(agents) :
       /\ agents[i].status = "rejected"
       /\ agents[j].status = "fulfilled"
       /\ agents[j].settledAt > agents[i].settledAt
       /\ \E k \in 1..Len(state.agentOutputs) :
            /\ state.agentOutputs[k].key = agents[j].roleId
            /\ state.agentOutputs[k].value = agents[j].value[1]

\* C26 (as stated): after agent execution over N identified roles each role has
\* contributed exactly one record: the agentOutputs entries plus the errors
\* entries added by the stage number N, one agentOutputs entry per succeeded
\* role and one errors entry per failed role.
C26_OneRecordPerRole ==
  [][(pc = "agent_execution" /\ pc' # "agent_execution" /\ state.roleAnalysis # << >>) =>
       LET N == Len(state.roleAnalysis[1].identifiedRoles)
           added == Len(state'.errors) - Len(state.errors)
       IN /\ Len(state'.agentOutputs) + added = N
          /\ Len(state'.agentOutputs) =
               Cardinality({i \in 1..Len(agents) : agents[i].status = "fulfilled"})
          /\ added = Cardinality({i \in 1..Len(agents) : agents[i].status = "rejected"})]_vars

\* the first and the last agent, in the order of identifiedRoles, that was
\* fulfilled for role id
FirstFulfilled(id) ==
  CHOOSE i \in 1..Len(agents) :
    /\ agents[i].status = "fulfilled" /\ agents[i].roleId = id
    /\ \A j \in 1..(i - 1) : ~(agents[j].status = "fulfilled" /\ agents[j].roleId = id)

LastFulfilled(id) ==
  CHOOSE i \in 1..Len(agents) :
    /\ agents[i].status = "fulfilled" /\ agents[i].roleId = id
    /\ \A j \in (i + 1)..Len(agents) : ~(agents[j].status = "fulfilled" /\ agents[j].roleId = id)

RejectedUpTo(i) == Cardinality({j \in 1..i : agents[j].status = "rejected"})

RECURSIVE OccursInOrder(_, _, _)
\* text contains the strings of parts one after the other, from position from on
OccursInOrder(text, parts, from) ==
  IF Len(parts) = 0 THEN TRUE
  ELSE LET part == parts[1]
           starts == {i \in from..(Len(text) - Len(part) + 1) :
                        SubSeq(text, i, i + Len(part) - 1) = part}
       IN /\ starts # {}
          /\ OccursInOrder(text, Tail(parts),
                           (CHOOSE i \in starts : \A j \in starts : i <= j) + Len(part))

\* C28: error handling is deterministic and non-generative: from any state it
\* completes and returns, makes no generation call, sets synthesizedContent to
\* one message containing all accumulated errors in order and finalReasoning
\* to the statement that an error occurred, and changes nothing else but
\* currentNode: errors, agentOutputs and roleAnalysis stay as they were.
C28_ErrorHandlingDeterministic ==
  [][pc = "error_handling" =>
       /\ pc' = "done" /\ outcome' = "returned"
       /\ UNCHANGED <<genResult, agents, synthesisCalls, generationCalls>>
       /\ state'.synthesizedContent # << >>
       /\ OccursInOrder(state'.synthesizedContent[1], state.errors, 1)
       /\ state'.finalReasoning = <<(<<"Error occurred, returning error message">>)>>
       /\ state'.currentNode = <<"error_handler">>
       /\ \A f \in DOMAIN state \ {"synthesizedContent", "finalReasoning", "currentNode"} :
            state'[f] = state[f]]_vars

\* C28 witness: error handling has run over two accumulated errors.
C28_Witness ==
  /\ pc = "done"
  /\ trace[Len(trace)] = "error_handling"
  /\ Len(state.errors) >= 2
  /\ state.errors[1] # state.errors[2]

\* at most one of the stages synthesis and error_handling has executed
AtMostOneClosingStage ==
  Cardinality({k \in 1..Len(trace) : trace[k] \in {"synthesis", "error_handling"}}) <= 1

\* C29 (as stated): a failure inside synthesis appends one entry to errors and
\* the run ends without an error-handling pass; in every run at most one of
\* the stages synthesis and error_handling executes, and error_handling never
\* executes after synthesis.
C29_SynthesisFailureEndsRun ==
  [][/\ pc = "synthesis" =>
          /\ pc' = "done"
          /\ state'.synthesizedContent = << >> =>
               /\ Len(state'.errors) = Len(state.errors) + 1
               /\ IsPrefix(state.errors, state'.errors)
     /\ AtMostOneClosingStage'
     /\ \A k, l \in 1..Len(trace') :
          (trace'[k] = "synthesis" /\ trace'[l] = "error_handling") => FALSE]_vars

\* C30: merging a stage's partial update preserves the fields the update does
\* not contain: no step changes userRequest, userConstraints, graphExecutionId
\* or startTime, so they are the same in the initial and the final state;
\* roleAnalysis, once set, and agentOutputs, once agent execution is over, are
\* not changed by any later stage.
C30_MergePreservesAbsentFields ==
  [][/\ state'.userRequest = state.userRequest
     /\ state'.userConstraints = state.userConstraints
     /\ state'.graphExecutionId = state.graphExecutionId
     /\ state'.startTime = state.startTime
     /\ (state.roleAnalysis # << >>) => state'.roleAnalysis = state.roleAnalysis
     /\ (pc \in {"synthesis", "error_handling", "done"})
          => state'.agentOutputs = state.agentOutputs]_vars

\* C30 witness: a run with constraints went through role analysis, agent
\* execution and synthesis and returned content.
C30_Witness ==
  /\ pc = "done"
  /\ trace = <<"role_analysis", "agent_execution", "synthesis">>
  /\ state.userConstraints # << >>
  /\ state.roleAnalysis # << >>
  /\ Len(state.agentOutputs) > 1
  /\ state.synthesizedContent # << >>

\* how many times the generation capability was called for a stage and role
CallsOf(stage, role) ==
  Cardinality({k \in 1..Len(generationCalls) : generationCalls[k] = GenerationCall(stage, role)})

FormatterDefaults(missingReasoning) ==
  \A k \in 1..Len(formatted) :
    /\ (state.roleAnalysis = << >>) =>
         /\ formatted[k].identifiedRoles = << >>
         /\ formatted[k].roleAnalysis.reasoning = missingReasoning
         /\ formatted[k].roleAnalysis.confidence = 0
    /\ (state.synthesizedContent = << >>) => formatted[k].finalContent = << >>
    /\ (state.errors = << >>) => formatted[k].metadata.warnings = << >>

TextFieldsPresent(role) ==
  ~Falsy(role.id) /\ ~Falsy(role.name) /\ ~Falsy(role.description) /\ ~Falsy(role.promptTemplate)

\* what the validator is to accept: 2 to 4 roles, distinct ids, confidence in [0,1],
\* and the given per-role requirement on every role
AnalysisAcceptable(analysis, RoleComplete(_)) ==
  LET roles == analysis.identifiedRoles
  IN /\ Len(roles) >= 2 /\ Len(roles) <= 4
     /\ \A i, j \in 1..Len(roles) : roles[i].id = roles[j].id => i = j
     /\ analysis.confidence >= 0 /\ analysis.confidence <= 100
     /\ \A i \in 1..Len(roles) : RoleComplete(roles[i])

\* C33: validateRoleAnalysis returns valid = true with an empty violation list exactly
\* when the analysis has 2 to 4 roles, pairwise distinct ids, confidence within [0,1]
\* and every role has all five required fields (id, name, description, promptTemplate,
\* priority); otherwise it returns at least one violation.
C33_ValidatorAcceptsExactlyValidAnalyses ==
  validation # << >> =>
    /\ validation[1].valid <=> (validation[1].errors = << >>)
    /\ validation[1].valid <=>
         AnalysisAcceptable(state.roleAnalysis[1],
                            LAMBDA role : TextFieldsPresent(role) /\ role.priority # Undefined)

\* C33, the part the validator does check: the four text fields
C33_ValidatorChecksTextFields ==
  validation # << >> =>
    /\ validation[1].valid <=> (validation[1].errors = << >>)
    /\ validation[1].valid <=> AnalysisAcceptable(state.roleAnalysis[1], TextFieldsPresent)

\* the role the current run's analysis identified at position i
IdentifiedRole(i) == state.roleAnalysis[1].identifiedRoles[i]

\* C34: requests are isolated: in every run, the second of a process included, the
\* agent that executes a role is bound to the role definition the run's own role
\* analysis produced, and each stored output carries that definition's data; role
\* definitions of an earlier request held in the agent cache play no part.  (Roles
\* sharing an id within one run are left aside.)
C34_RequestsIsolated ==
  (pc \in {"agent_execution", "synthesis", "error_handling", "done"} /\ state.roleAnalysis # << >>)
  => \A i \in 1..Len(agents) :
       UniqueId(i) =>
         /\ agents[i].agentRole = IdentifiedRole(i)
         /\ \A k \in 1..Len(state.agentOutputs) :
              state.agentOutputs[k].key = IdentifiedRole(i).id
              => state.agentOutputs[k].value.priority = IdentifiedRole(i).priority

\* C34 in the first run of a process, where the cache starts empty
C34_FirstRunIsolated ==
  state.userRequest = FirstRequest => C34_RequestsIsolated

\* how the generateText call of synthesis settled in the finished run, read off
\* the final state
SynthesisSettlementOfRun ==
  IF Len(state.agentOutputs) <= 1 THEN NotCalled
  ELSE IF state.synthesizedContent # << >>
    THEN [kind |-> "text", text |-> state.synthesizedContent[1], message |-> << >>]
  ELSE [kind |-> "error", text |-> << >>, message |-> GenErrorMessage]

\* the stages the given workflow ("sequential" or "langgraph") visits and the
\* state it returns when the generation calls settle as they did in the finished run
RunWith(workflow) ==
  LET MergeOp(st, upd) ==
        IF workflow = "sequential" THEN MergeSpread(st, upd) ELSE MergeReducers(st, upd)
      init == createInitialState(state.userRequest, state.userConstraints)
      st1 == MergeOp(init, roleAnalyzerNode(init, genResult[1]))
      st2 == MergeOp(st1, dynamicAgentExecutorNode(st1, agents))
  IN IF shouldContinueAfterRoleAnalysis(st1) = "error_handler"
     THEN [stages |-> <<"role_analysis", "error_handling">>,
           final |-> MergeOp(st1, errorHandlerNode(st1))]
     ELSE IF shouldContinueAfterAgentExecution(st2) = "error_handler"
     THEN [stages |-> <<"role_analysis", "agent_execution", "error_handling">>,
           final |-> MergeOp(st2, errorHandlerNode(st2))]
     ELSE [stages |-> <<"role_analysis", "agent_execution", "synthesis">>,
           final |-> MergeOp(st2, synthesizerNode(st2, SynthesisSettlementOfRun).update)]

\* two final states agree in the given fields
AgreeOn(fields, s, t) == \A f \in fields : s[f] = t[f]

\* C35: for the same initial state and the same outcomes of every generation call,
\* the sequential and the LangGraph workflow visit the same stages in the same order
\* and return final states equal in roleAnalysis, agentOutputs, errors,
\* synthesizedContent, finalReasoning and currentNode.
C35_WorkflowsEquivalent ==
  pc = "done" =>
    /\ RunWith("sequential").stages = RunWith("langgraph").stages
    /\ AgreeOn({"roleAnalysis", "agentOutputs", "errors", "synthesizedContent",
                "finalReasoning", "currentNode"},
               RunWith("sequential").final, RunWith("langgraph").final)

\* C35 without the errors field
C35_WorkflowsEquivalentButErrors ==
  pc = "done" =>
    /\ RunWith("sequential").stages = RunWith("langgraph").stages
    /\ AgreeOn({"roleAnalysis", "agentOutputs", "synthesizedContent",
                "finalReasoning", "currentNode"},
               RunWith("sequential").final, RunWith("langgraph").final)

\* C35, the comparison is about the runs: the finished run is the one RunWith
\* computes for its own merge
C35_RunWithIsTheRun ==
  pc = "done" =>
    RunWith(impl) = [stages |-> trace, final |-> state]

\* the text errorHandlerNode puts before the joined errors
ErrorSummaryPrefix == <<"An error occurred during content generation: ">>

\* C36: whenever the error_handling stage runs, errors is non-empty, so the summary
\* placed in synthesizedContent names at least one underlying cause; in particular
\* agent_execution never ends with both agentOutputs and errors empty.
C36_ErrorHandlingHasACause ==
  /\ pc = "error_handling" => Len(state.errors) > 0
  /\ (pc = "done" /\ Len(trace) > 0 /\ trace[Len(trace)] = "error_handling")
     => /\ Len(state.errors) > 0
        /\ state.synthesizedContent # <<ErrorSummaryPrefix>>

\* C36 for requests that do not carry an empty preferredRoles list
C36_ErrorHandlingHasACauseWithRoles ==
  (state.userConstraints = << >> \/ state.userConstraints[1].preferredRoles # <<(<< >>)>>)
  => C36_ErrorHandlingHasACause

\* the settlement of an agent's promise as Promise.allSettled sees it
Settlement(a) == [status |-> a.status, value |-> a.value, reason |-> a.reason]

\* a step in which an event reaches an agent that has settled
LateEvent ==
  \E i \in 1..Len(agents) :
    /\ agents[i].status # "pending"
    /\ i <= Len(agents') /\ agents'[i] # agents[i]

C38_RoleAnalysisNeverFails ==
  /\ pc \in {"start", "role_analysis"} => state.errors = << >>
  /\ pc = "agent_execution" => (state.roleAnalysis # << >> /\ state.errors = << >>)
  /\ Len(trace) >= 2 => (trace[1] = "role_analysis" /\ trace[2] = "agent_execution")
  /\ \A k \in 1..Len(state.errors) : state.errors[k] # <<"No role analysis found">>

\* C38 witness: agent execution has started, with roleAnalysis set and no error
\* recorded, after a generateObject call that resolved without an object.
C38_Witness ==
  /\ pc = "agent_execution"
  /\ genResult # << >> /\ genResult[1].kind = "no_object"
  /\ state.roleAnalysis # << >>
  /\ state.errors = << >>
  /\ Len(agents) = Len(state.roleAnalysis[1].identifiedRoles)

\* the finished run failed: it ended in error_handling, or its synthesis failed
\* and left no synthesized content
RunFailed ==
  \/ (Len(trace) > 0 /\ trace[Len(trace)] = "error_handling")
  \/ state.synthesizedContent = << >>

\* C39: the multiAgentWriting tool reports failure faithfully: it returns
\* success = true only when the workflow produced synthesized content from at least
\* one agent output, and success = false whenever the workflow ended in
\* error_handling or synthesis failed.
C39_ToolReportsFailure ==
  toolResult # << >> =>
    /\ toolResult[1].success =>
         (~RunFailed /\ Len(state.agentOutputs) > 0 /\ state.synthesizedContent # << >>)
    /\ RunFailed => ~toolResult[1].success

\* C39, what the tool does report: success in every case, with the content the
\* formatter took from the state, which for a failed synthesis is the empty string
C39_ToolAlwaysReportsSuccess ==
  toolResult # << >> =>
    /\ toolResult[1].success
    /\ toolResult[1].content = (IF state.synthesizedContent # << >>
                                THEN state.synthesizedContent[1] ELSE << >>)

====
